---------------------------- MODULE Spec2Model ----------------------------
(***************************************************************************)
(* Model of the four inventory scripts of alibaba-cloud-scripts:           *)
(*   "ecs"  src/ecs-inventory/alibaba-ecs-inventory.py                     *)
(*   "uecs" src/ecs-inventory/update-alibaba-ecs-inventory.py              *)
(*   "oss"  src/oss-inventory/oss-inventory.py                             *)
(*   "ram"  src/ram-inventory/alibaba-ram-inventory.py                     *)
(* A run is: connect, list the top-level resources page by page, enrich    *)
(* each resource with secondary lookups, then write the two report files.  *)
(* The cloud provider is the environment: it holds nres resources and may  *)
(* make any request raise.                                                 *)
(***************************************************************************)
EXTENDS Integers, Sequences, FiniteSets, TLC

VARIABLES
    script,      \* which of the four scripts runs
    args,        \* command-line flags of the run
    nres,        \* number of top-level resources the provider holds
    kinds,       \* provider data: the variant of each resource
    pc,          \* position in main()
    page,        \* page number / marker of the next top-level request
    lastTotal,   \* total_count (or IsTruncated, as 1/0) of the last page
    pageItems,   \* items of the current page not yet iterated
    rows_csv,    \* rows_csv / data_csv / data_rows
    rows_html,   \* rows_html / data_html
    sums,        \* running totals (sum_vcpu, sum_disk, total_bytes, ...)
    ims_map,     \* RAM script: user ids seen in the IMS listing
    files,       \* output files that exist, with their content
    errPrinted,  \* an error message or traceback was printed
    printed_attr_error, \* the ECS script's global _printed_attr_error
    requests,    \* history: provider operations requested so far
    trace,       \* history: the requests, trace, sleeps and warnings of the run, in order
    faults,      \* history: per iterated resource, the lookups that raised
    fatal,       \* history: set-up or a top-level listing request raised
    pg,          \* state of one paginated secondary listing
    fb,          \* input and result of one format_bytes call
    call,        \* one call of a helper function: its input and result
    ui           \* the filter controls of an opened HTML report and the rows shown

vars == <<script, args, nres, kinds, pc, page, lastTotal, pageItems, rows_csv,
          rows_html, sums, ims_map, files, errPrinted, printed_attr_error,
          requests, trace, faults, fatal, pg, fb, call, ui>>

mainVars == <<script, args, nres, kinds, pc, page, lastTotal, pageItems, rows_csv,
              rows_html, sums, ims_map, files, errPrinted,
              printed_attr_error, requests, trace, faults, fatal>>

-----------------------------------------------------------------------------
(* Bounds of the model *)

\* most top-level resources (instances, buckets, users) the provider holds
MaxRes == 3
\* page size of the top-level listings and of the provider's default page;
\* the scripts use 20, 50 and 100: the loops' exit tests are kept as written
\* and only the size is scaled so that a few resources span several pages
PageSize == 2
\* most items of one paginated disk/snapshot listing
MaxItems == 125
\* most secondary lookups the provider makes raise in one run
MaxFaults == 2
\* spread of the byte counts around each power of 1024
MaxDelta == 2
\* longest list handed to _safe_join
MaxLen == 5
\* longest list of disks summed on its own
MaxDisks == 3
\* most access keys of a user examined on their own
MaxKeys == 3

(* Program constants *)

\* page_size of list_disks_for_instance and snapshot_summary_for_instance
SUB_PAGE_SIZE == 50
\* unit step of format_bytes
KIB == 1024

Scripts == {"ecs", "uecs", "oss", "ram"}
Kinds == {1, 2}

\* Python's None where a string is expected
NONE == "__None__"
\* Python truthiness of an optional string
Truthy(v) == v # NONE /\ v # ""
\* x or d
Or(v, d) == IF Truthy(v) THEN v ELSE d

Min(a, b) == IF a < b THEN a ELSE b
Range(s) == {s[i] : i \in DOMAIN s}

RECURSIVE SumSeq(_)
SumSeq(s) == IF s = <<>> THEN 0 ELSE Head(s) + SumSeq(Tail(s))

\* names of the provider's resources, by position
ResName(i) == <<"r-1", "r-2", "r-3", "r-4", "r-5", "r-6">>[i]

-----------------------------------------------------------------------------
(* oss-inventory.py: format_bytes                                          *)
(* A byte count is held exactly as m * 1024^e (e may go negative while the *)
(* loop divides), so that counts up to the PB range fit the checker's      *)
(* integers; Python's float holds every such value exactly.  A result is   *)
(* the unit and the value in hundredths (two decimals); zero marks the     *)
(* literal "0 B".                                                          *)

Units == <<"B", "KB", "MB", "GB", "TB">>

RECURSIVE Pow1024(_)
Pow1024(k) == IF k = 0 THEN 1 ELSE KIB * Pow1024(k - 1)

\* m * 1024^e < 1024, for m >= 1
LtKib(m, e) ==
    IF e >= 1 THEN FALSE
    ELSE IF e <= -2 THEN TRUE
    ELSE m < Pow1024(1 - e)

\* f"{b:.2f}": the exact value rounded to hundredths, ties to even
Fmt2(m, e) ==
    IF e >= 0 THEN m * 100 * Pow1024(e)
    ELSE LET d == Pow1024(-e)
             q == (m * 100) \div d
             r == (m * 100) % d
         IN  IF 2 * r > d THEN q + 1
             ELSE IF 2 * r < d THEN q
             ELSE q + (q % 2)

ZeroB == [zero |-> TRUE, h |-> 0, unit |-> "B"]

\* the loop of format_bytes from unit number i on
RECURSIVE FormatLoop(_, _, _)
FormatLoop(m, e, i) ==
    IF i > Len(Units) THEN [zero |-> FALSE, h |-> Fmt2(m, e), unit |-> "PB"]
    ELSE IF LtKib(m, e) THEN [zero |-> FALSE, h |-> Fmt2(m, e), unit |-> Units[i]]
    ELSE FormatLoop(m, e - 1, i + 1)

format_bytes_lt1025(b) ==
    IF b.kind # "num" THEN ZeroB
    ELSE IF b.neg \/ b.m = 0 THEN ZeroB
    ELSE IF b.e = 0 /\ b.m = KIB
         THEN [zero |-> FALSE, h |-> Fmt2(b.m, b.e), unit |-> "B"]
         ELSE FormatLoop(b.m, b.e, 1)

format_bytes(b) ==
    IF b.kind # "num" THEN ZeroB            \* float(b) raises: except branch
    ELSE IF b.neg \/ b.m = 0 THEN ZeroB     \* b <= 0
    ELSE FormatLoop(b.m, b.e, 1)

\* a non-negative integer byte count, as the scripts pass it
Bytes(n) == [kind |-> "num", neg |-> FALSE, m |-> n, e |-> 0]

-----------------------------------------------------------------------------
(* alibaba-ecs-inventory.py: the paginated disk and snapshot listings      *)

\* the provider's answer to page p of a listing that holds the items all
PageOf(all, p, size) ==
    [items |-> SubSeq(all, (p - 1) * size + 1, Min(p * size, Len(all))),
     total_count |-> Len(all)]

PagingStart == [page |-> 1, disks |-> <<>>, count |-> 0, latest |-> 0,
                reqs |-> <<>>, done |-> FALSE]

\* one pass of the while loop of list_disks_for_instance, dropping the
\* last item of every page (mutant)
ListDisksStep_dropLast(st, all) ==
    LET body == PageOf(all, st.page, SUB_PAGE_SIZE)
        dlist == IF body.items = <<>> THEN <<>>
                 ELSE SubSeq(body.items, 1, Len(body.items) - 1)
        stop == st.page * SUB_PAGE_SIZE >= body.total_count
    IN  [st EXCEPT !.disks = st.disks \o dlist,
                   !.reqs = Append(st.reqs, st.page),
                   !.done = stop,
                   !.page = IF stop THEN st.page ELSE st.page + 1]

\* one pass of the while loop of list_disks_for_instance
ListDisksStep(st, all) ==
    LET body == PageOf(all, st.page, SUB_PAGE_SIZE)
        stop == st.page * SUB_PAGE_SIZE >= body.total_count
    IN  [st EXCEPT !.disks = st.disks \o body.items,
                   !.reqs = Append(st.reqs, st.page),
                   !.done = stop,
                   !.page = IF stop THEN st.page ELSE st.page + 1]

\* every creation time taken as the latest so far (mutant)
NewerTime_any(ct, latest) == ct # 0

\* "if ct and (latest is None or ct > latest)": creation times are
\* ordinals, 0 standing for an absent one and for latest = None
NewerTime(ct, latest) == ct # 0 /\ (latest = 0 \/ ct > latest)

\* latest after the for loop over one page of snapshots, in listing
\* order: latest = ct where the test above passes
RECURSIVE SnapLatest(_, _)
SnapLatest(snaps, latest) ==
    IF snaps = <<>> THEN latest
    ELSE IF NewerTime(Head(snaps).creation_time, latest)
    THEN SnapLatest(Tail(snaps), Head(snaps).creation_time)
    ELSE SnapLatest(Tail(snaps), latest)

\* the for loop over one page of snapshots: count += 1 for each
SnapFold(snaps, count, latest) ==
    [count |-> count + Len(snaps), latest |-> SnapLatest(snaps, latest)]

\* one pass of the while loop of snapshot_summary_for_instance
SnapshotStep(st, all) ==
    LET body == PageOf(all, st.page, SUB_PAGE_SIZE)
        f == SnapFold(body.items, st.count, st.latest)
        stop == st.page * SUB_PAGE_SIZE >= body.total_count
    IN  [st EXCEPT !.count = f.count,
                   !.latest = f.latest,
                   !.reqs = Append(st.reqs, st.page),
                   !.done = stop,
                   !.page = IF stop THEN st.page ELSE st.page + 1]

RECURSIVE RunDisks(_, _)
RunDisks(st, all) == IF st.done THEN st ELSE RunDisks(ListDisksStep(st, all), all)

RECURSIVE RunSnaps(_, _)
RunSnaps(st, all) == IF st.done THEN st ELSE RunSnaps(SnapshotStep(st, all), all)

list_disks_for_instance(all) == RunDisks(PagingStart, all).disks

snapshot_summary_for_instance(all) ==
    LET st == RunSnaps(PagingStart, all)
    IN  [count |-> st.count, latest |-> st.latest]

-----------------------------------------------------------------------------
(* Text helpers shared by the scripts *)

\* html.escape over the strings of this model: only "web&db" holds a
\* character that html.escape rewrites
Escape(s) == IF s = "web&db" THEN "web&amp;db" ELSE s

\* str() of a non-negative int
StrInt(n) == ToString(n)

\* str() of a float held in hundredths: 400 -> "4.0", 150 -> "1.5", 125 -> "1.25"
StrFloat(h) ==
    LET w == h \div 100
        f == h % 100
    IN  ToString(w) \o "." \o
        (IF f % 10 = 0 THEN ToString(f \div 10)
         ELSE IF f < 10 THEN "0" \o ToString(f) ELSE ToString(f))

\* a creation time (ordinal 1..9, 0 absent) as the provider's ISO string
TimeStr(t) == IF t = 0 THEN "" ELSE "2024-01-0" \o ToString(t) \o "T00:00Z"

\* round(float(mb) / 1024, 2), in hundredths of a GB
RoundGb(mb) ==
    LET q == (mb * 100) \div KIB
        r == (mb * 100) % KIB
    IN  IF 2 * r > KIB THEN q + 1 ELSE IF 2 * r < KIB THEN q ELSE q + (q % 2)

\* the values of vals that are truthy, in order
RECURSIVE Truthies(_)
Truthies(vals) ==
    IF vals = <<>> THEN <<>>
    ELSE IF Truthy(Head(vals)) THEN <<Head(vals)>> \o Truthies(Tail(vals))
    ELSE Truthies(Tail(vals))

\* first occurrences only, in order
RECURSIVE Dedup(_, _)
Dedup(vals, seen) ==
    IF vals = <<>> THEN <<>>
    ELSE IF Head(vals) \in seen THEN Dedup(Tail(vals), seen)
    ELSE <<Head(vals)>> \o Dedup(Tail(vals), seen \cup {Head(vals)})

RECURSIVE JoinWith(_, _)
JoinWith(vals, sep) ==
    IF vals = <<>> THEN ""
    ELSE IF Len(vals) = 1 THEN Head(vals)
    ELSE Head(vals) \o sep \o JoinWith(Tail(vals), sep)

\* _safe_join of both ECS scripts
_safe_join(vals) == JoinWith(Dedup(Truthies(vals), {}), "; ")

-----------------------------------------------------------------------------
(* The provider's ECS data *)

\* instance i of the DescribeInstances listing
Instance(i, k) ==
    [instance_id |-> ResName(i),
     instance_name |-> IF k = 1 THEN "web&db" ELSE NONE,
     instance_type |-> "ecs.g6.large",
     status |-> IF k = 1 THEN "Running" ELSE "Stopped",
     zone_id |-> "me-central-1a",
     creation_time |-> "2023-05-01T10:00Z",
     cpu |-> 2 * k,
     memory |-> IF k = 1 THEN 4096 ELSE 1536,
     has_vpc |-> k = 1,
     vpc_id |-> "vpc-1",
     v_switch_id |-> "vsw-1",
     vpc_private_ips |-> <<"10.0.0.1">>,
     inner_ips |-> <<>>,
     key_pair_name |-> IF k = 1 THEN "ops-key" ELSE NONE,
     public_ips |-> IF k = 1 THEN <<"8.8.4.4">> ELSE <<>>,
     enis |-> <<[network_interface_id |-> "eni-1", primary_ip_address |-> "10.0.0.1"]>>,
     security_group_ids |-> <<"sg-1", "sg-2", "sg-1">>,
     os_name_en |-> NONE,
     os_name |-> NONE,
     osname |-> IF k = 1 THEN "Ubuntu 22.04" ELSE NONE,
     osname_en |-> IF k = 1 THEN "Ubuntu 22.04 64 bit" ELSE NONE,
     image_id |-> IF k = 1 THEN "img-1" ELSE NONE]

\* the disks the provider holds for an instance of variant k
DisksOf(k) ==
    IF k = 1
    THEN <<[disk_id |-> "d-1", size |-> 40, type |-> "system", category |-> "cloud_essd"],
           [disk_id |-> "d-2", size |-> 100, type |-> "data", category |-> "cloud_efficiency"],
           [disk_id |-> "d-3", size |-> 20, type |-> "Data", category |-> "cloud_essd"]>>
    ELSE <<[disk_id |-> "d-4", size |-> 20, type |-> "system", category |-> "cloud_essd"]>>

\* the snapshots the provider holds for an instance of variant k
SnapsOf(k) ==
    IF k = 1 THEN <<[creation_time |-> 5], [creation_time |-> 9], [creation_time |-> 0]>>
    ELSE <<>>

\* a response body rendered by to_map(): a leaf value or a nested map
Leaf(v) == [leaf |-> TRUE, val |-> v, kids |-> <<>>]
MapNode(f) == [leaf |-> FALSE, val |-> "", kids |-> f]

\* the DescribeInstanceAttribute body for instance i: no typed OS fields,
\* the values sit in the map
AttrBody(i) ==
    [os_name_en |-> NONE, os_name |-> NONE, image_id |-> NONE,
     map |-> MapNode([OSName |-> Leaf("CentOS 7"),
                      InstanceAttribute |-> MapNode([ImageId |-> Leaf("img-attr")])])]

-----------------------------------------------------------------------------
(* alibaba-ecs-inventory.py: helpers *)

PROFILE_NAME == "masdr-env"
\* INSTANCE_ATTR_SLEEP = 0.06, read by "if INSTANCE_ATTR_SLEEP:"
INSTANCE_ATTR_SLEEP == TRUE
INCLUDE_SNAPSHOTS == TRUE
DEBUG_PRINT_ATTR_ERRORS == TRUE
REGION_ID == "me-central-1"

HEADERS ==
    <<"Profile", "Name", "InstanceId", "Region", "InstanceType", "vCPU",
      "Memory(GB)", "OS Name", "ImageId", "ENI IDs", "Public IPs",
      "Private IPs", "Security Groups", "DiskTotal(GB)", "SystemDisk(GB)",
      "DataDisks(GB)", "DiskCategories", "Disk IDs", "SnapshotCount",
      "LatestSnapshotTime", "State", "AZ", "VPC", "VSwitch", "Key Pair",
      "Creation Time">>

\* str.lower over the disk types of this model
Lower(s) == IF s = "Data" THEN "data" ELSE IF s = "System" THEN "system" ELSE s

\* sorted() over the disk categories of this model
SortedCats(cats) ==
    SelectSeq(<<"cloud_efficiency", "cloud_essd", "cloud_ssd">>, LAMBDA c : c \in cats)

STATE_COLOR(st) ==
    CASE st = "Running" -> "#2e7d32"
      [] st = "Stopped" -> "#c62828"
      [] st = "Starting" -> "#1565c0"
      [] st = "Stopping" -> "#ef6c00"
      [] st = "Pending" -> "#1565c0"
      [] st = "Deleted" -> "#616161"
      [] OTHER -> "#424242"

ecs_badge(state) ==
    "<span style='background:" \o STATE_COLOR(state) \o ";color:#fff'>"
        \o Escape(state) \o "</span>"

ecs_link(instance_id) ==
    LET iid == Escape(instance_id)
    IN  "<a href='https://ecs.console.aliyun.com/#/server/" \o REGION_ID \o "/"
            \o iid \o "/detail' data-value='" \o iid \o "'>" \o iid \o "</a>"

get_public_ips(ins) == Truthies(ins.public_ips)

get_network_interfaces(ins) ==
    [enis |-> Truthies([j \in DOMAIN ins.enis |-> ins.enis[j].network_interface_id]),
     pri_ips |-> Truthies([j \in DOMAIN ins.enis |-> ins.enis[j].primary_ip_address])]

get_private_ips(ins) ==
    Dedup(get_network_interfaces(ins).pri_ips
              \o (IF ins.has_vpc THEN Truthies(ins.vpc_private_ips) ELSE <<>>)
              \o Truthies(ins.inner_ips),
          {})

get_security_groups(ins) == Truthies(ins.security_group_ids)

\* the walk of one dotted key through nested maps
RECURSIVE WalkPath(_, _)
WalkPath(cur, parts) ==
    IF parts = <<>> THEN [ok |-> TRUE, cur |-> cur]
    ELSE IF ~cur.leaf /\ Head(parts) \in DOMAIN cur.kids
         THEN WalkPath(cur.kids[Head(parts)], Tail(parts))
         ELSE [ok |-> FALSE, cur |-> cur]

\* every resolved path taken, None and "" included (mutant)
PickOk_resolved(w) == w.ok

\* if ok and cur not in (None, "")
PickOk(w) == w.ok /\ (~w.cur.leaf \/ Truthy(w.cur.val))

RECURSIVE _pick_from_map(_, _)
_pick_from_map(m, keys) ==
    IF keys = <<>> THEN ""
    ELSE LET w == WalkPath(m, Head(keys))
         IN  IF PickOk(w)
             THEN (IF w.cur.leaf THEN w.cur.val ELSE "{...}")
             ELSE _pick_from_map(m, Tail(keys))

OsKeys ==
    <<<<"OSNameEn">>, <<"OSName">>, <<"OsNameEn">>, <<"OsName">>,
      <<"InstanceAttribute", "OSNameEn">>, <<"InstanceAttribute", "OSName">>,
      <<"Body", "OSNameEn">>, <<"Body", "OSName">> >>

ImageKeys ==
    <<<<"ImageId">>, <<"imageId">>, <<"image_id">>,
      <<"InstanceAttribute", "ImageId">>, <<"Body", "ImageId">> >>

\* the attribute lookup's values put before the listing's (mutant)
get_os_image_best_effort_attrFirst(ins, body, attr_raises) ==
    LET os_name == Or(ins.os_name_en, Or(ins.os_name, Or(ins.osname, "")))
        image_id == Or(ins.image_id, "")
        iid == Or(ins.instance_id, "")
    IN  IF (Truthy(os_name) /\ Truthy(image_id)) \/ ~Truthy(iid)
        THEN [os_name |-> os_name, image_id |-> image_id, attempted |-> FALSE]
        ELSE IF attr_raises
        THEN [os_name |-> os_name, image_id |-> image_id, attempted |-> TRUE]
        ELSE LET t_os == Or(body.os_name_en, Or(body.os_name, ""))
                 t_img == Or(body.image_id, "")
                 os2 == IF Truthy(t_os) THEN t_os ELSE _pick_from_map(body.map, OsKeys)
                 img2 == IF Truthy(t_img) THEN t_img
                         ELSE _pick_from_map(body.map, ImageKeys)
             IN  [os_name |-> Or(os2, Or(os_name, "")),
                  image_id |-> Or(img2, Or(image_id, "")),
                  attempted |-> TRUE]

\* get_os_image_best_effort; attr_raises: DescribeInstanceAttribute raises.
\* attempted: the request was issued (and the sleep after it taken)
get_os_image_best_effort(ins, body, attr_raises) ==
    LET os_name == Or(ins.os_name_en, Or(ins.os_name, Or(ins.osname, "")))
        image_id == Or(ins.image_id, "")
        iid == Or(ins.instance_id, "")
    IN  IF Truthy(os_name) /\ Truthy(image_id)
        THEN [os_name |-> os_name, image_id |-> image_id, attempted |-> FALSE]
        ELSE IF ~Truthy(iid)
        THEN [os_name |-> os_name, image_id |-> image_id, attempted |-> FALSE]
        ELSE IF attr_raises
        THEN [os_name |-> os_name, image_id |-> image_id, attempted |-> TRUE]
        ELSE LET t_os == Or(body.os_name_en, Or(body.os_name, ""))
                 t_img == Or(body.image_id, "")
                 os2 == IF Truthy(t_os) THEN t_os ELSE _pick_from_map(body.map, OsKeys)
                 img2 == IF Truthy(t_img) THEN t_img
                         ELSE _pick_from_map(body.map, ImageKeys)
             IN  [os_name |-> Or(os_name, Or(os2, "")),
                  image_id |-> Or(image_id, Or(img2, "")),
                  attempted |-> TRUE]

\* the disk types compared as they are spelled (mutant)
disk_summary_exact(disks) ==
    LET sizes(pred(_)) ==
            SumSeq([j \in DOMAIN disks |-> IF pred(disks[j]) THEN disks[j].size ELSE 0])
    IN  [total |-> sizes(LAMBDA d : TRUE),
         system |-> sizes(LAMBDA d : Or(d.type, "") = "system"),
         data |-> sizes(LAMBDA d : Or(d.type, "") = "data"),
         cats |-> JoinWith(SortedCats({Or(disks[j].category, "") : j \in DOMAIN disks}
                                      \ {""}), ", "),
         disk_ids |-> Truthies([j \in DOMAIN disks |-> disks[j].disk_id])]

\* disk_summary
disk_summary(disks) ==
    LET sizes(pred(_)) ==
            SumSeq([j \in DOMAIN disks |-> IF pred(disks[j]) THEN disks[j].size ELSE 0])
    IN  [total |-> sizes(LAMBDA d : TRUE),
         system |-> sizes(LAMBDA d : Lower(Or(d.type, "")) = "system"),
         data |-> sizes(LAMBDA d : Lower(Or(d.type, "")) = "data"),
         cats |-> JoinWith(SortedCats({Or(disks[j].category, "") : j \in DOMAIN disks}
                                      \ {""}), ", "),
         disk_ids |-> Truthies([j \in DOMAIN disks |-> disks[j].disk_id])]

NoDisks == [total |-> 0, system |-> 0, data |-> 0, cats |-> "", disk_ids |-> <<>>]

-----------------------------------------------------------------------------
(* alibaba-ecs-inventory.py: the body of the for loop of main() for one     *)
(* instance.  attr_raises, disks_raise, snaps_raise: the provider makes     *)
(* that lookup raise.                                                       *)

EcsFields(i, k, attr_raises, disks_raise, snaps_raise) ==
    LET ins == Instance(i, k)
        iid == Or(ins.instance_id, "")
        osimg == get_os_image_best_effort(ins, AttrBody(i), attr_raises)
        d == IF disks_raise THEN NoDisks
             ELSE disk_summary(list_disks_for_instance(DisksOf(k)))
        sn == snapshot_summary_for_instance(SnapsOf(k))
        snapped == Truthy(iid) /\ ~snaps_raise
    IN  [name |-> Or(ins.instance_name, ""),
         iid |-> iid,
         itype |-> Or(ins.instance_type, ""),
         state |-> Or(ins.status, ""),
         az |-> Or(ins.zone_id, ""),
         ctime |-> Or(ins.creation_time, ""),
         vcpu |-> ins.cpu,
         mem_gb |-> RoundGb(ins.memory),
         vpc_id |-> IF ins.has_vpc THEN Or(ins.vpc_id, "") ELSE "",
         vsw_id |-> IF ins.has_vpc THEN Or(ins.v_switch_id, "") ELSE "",
         keyp |-> Or(ins.key_pair_name, ""),
         pub_ips |-> get_public_ips(ins),
         enis |-> get_network_interfaces(ins).enis,
         pri_ips |-> get_private_ips(ins),
         sgs |-> get_security_groups(ins),
         os_name |-> osimg.os_name,
         image_id |-> osimg.image_id,
         attempted |-> osimg.attempted,
         d |-> d,
         snap_count |-> IF snapped THEN StrInt(sn.count) ELSE "",
         snap_latest |-> IF snapped THEN TimeStr(sn.latest) ELSE ""]

\* the CSV row of one instance, one cell short (mutant)
EcsCsvRow_short(f) ==
    <<PROFILE_NAME, f.name, f.iid, REGION_ID, f.itype, f.vcpu, f.mem_gb,
      f.os_name, f.image_id, _safe_join(f.enis), _safe_join(f.pub_ips),
      _safe_join(f.pri_ips), _safe_join(f.sgs), f.d.total, f.d.system,
      f.d.data, f.d.cats, _safe_join(f.d.disk_ids), f.snap_count,
      f.snap_latest, f.state, f.az, f.vpc_id, f.vsw_id, f.keyp>>

\* rows_csv.append([...])
EcsCsvRow(f) ==
    <<PROFILE_NAME, f.name, f.iid, REGION_ID, f.itype, f.vcpu, f.mem_gb,
      f.os_name, f.image_id, _safe_join(f.enis), _safe_join(f.pub_ips),
      _safe_join(f.pri_ips), _safe_join(f.sgs), f.d.total, f.d.system,
      f.d.data, f.d.cats, _safe_join(f.d.disk_ids), f.snap_count,
      f.snap_latest, f.state, f.az, f.vpc_id, f.vsw_id, f.keyp, f.ctime>>

\* rows_html.append([...])
EcsHtmlRow(f) ==
    <<Escape(PROFILE_NAME), Escape(f.name), ecs_link(f.iid), Escape(REGION_ID),
      Escape(f.itype), Escape(StrInt(f.vcpu)), Escape(StrFloat(f.mem_gb)),
      Escape(f.os_name), Escape(f.image_id), Escape(_safe_join(f.enis)),
      Escape(_safe_join(f.pub_ips)), Escape(_safe_join(f.pri_ips)),
      Escape(_safe_join(f.sgs)), Escape(StrInt(f.d.total)),
      Escape(StrInt(f.d.system)), Escape(StrInt(f.d.data)), Escape(f.d.cats),
      Escape(_safe_join(f.d.disk_ids)), Escape(f.snap_count),
      Escape(f.snap_latest), ecs_badge(f.state), Escape(f.az),
      Escape(f.vpc_id), Escape(f.vsw_id), Escape(f.keyp), Escape(f.ctime)>>

-----------------------------------------------------------------------------
(* update-alibaba-ecs-inventory.py: helpers and the loop body *)

TENANT_NAME == "tenant-a"

heads ==
    <<"Instance Name", "InstanceId", "Type", "vCPU", "RAM(GB)", "OS",
      "DiskTotal", "SystemDisk", "DataDisk", "Categories", "Snapshots",
      "LatestSnap", "State", "Zone", "VPC", "Created">>

\* _s
_s(val) == IF val = NONE THEN "" ELSE val

uecs_colors(st) ==
    CASE st = "Running" -> "#16a34a"
      [] st = "Stopped" -> "#dc2626"
      [] st = "Starting" -> "#2563eb"
      [] st = "Stopping" -> "#ea580c"
      [] OTHER -> "#64748b"

uecs_badge(state) ==
    "<span style='background:" \o uecs_colors(_s(state)) \o ";color:white'>"
        \o Escape(_s(state)) \o "</span>"

uecs_link(iid) ==
    LET sid == Escape(_s(iid))
    IN  "<a href='https://ecs.console.aliyun.com/#/server/" \o REGION_ID \o "/"
            \o sid \o "/detail' data-value='" \o sid \o "'>" \o sid \o "</a>"

\* max() of the truthy creation times of one response
RECURSIVE MaxTime(_)
MaxTime(snaps) ==
    IF snaps = <<>> THEN 0
    ELSE LET rest == MaxTime(Tail(snaps))
             ct == Head(snaps).creation_time
         IN  IF ct > rest THEN ct ELSE rest

\* "for d in d_resp.disks.disk": the sizes summed, a disk that is not a
\* system disk counted as data
UecsDiskSums(disks) ==
    LET size(pred(_)) ==
            SumSeq([j \in DOMAIN disks |-> IF pred(disks[j]) THEN disks[j].size ELSE 0])
    IN  [d_tot |-> size(LAMBDA d : TRUE),
         d_sys |-> size(LAMBDA d : Lower(_s(d.type)) = "system"),
         d_dat |-> size(LAMBDA d : Lower(_s(d.type)) # "system"),
         d_ids |-> [j \in DOMAIN disks |-> disks[j].disk_id]]

\* snap_count = len(snaps) and max(times) over the truthy creation times
UecsSnapSummary(snaps) == [snap_count |-> Len(snaps), latest |-> MaxTime(snaps)]

\* the disk and snapshot part of the loop body: one try block, one
\* DescribeDisks and one DescribeSnapshots request without page parameters,
\* each answered with the provider's first page
UecsFields(i, k, disks_raise, snaps_raise) ==
    LET ins == Instance(i, k)
        disks == PageOf(DisksOf(k), 1, PageSize).items
        snaps == PageOf(SnapsOf(k), 1, PageSize).items
        dsum == UecsDiskSums(disks)
        got_d == ~disks_raise
        got_s == ~disks_raise /\ ~snaps_raise
    IN  [ins_name |-> Or(_s(ins.instance_name), "Unnamed"),
         iid |-> _s(ins.instance_id),
         itype |-> _s(ins.instance_type),
         vcpu |-> ins.cpu,
         mem |-> RoundGb(ins.memory),
         os |-> _s(ins.osname_en),
         d_tot |-> IF got_d THEN dsum.d_tot ELSE 0,
         d_sys |-> IF got_d THEN dsum.d_sys ELSE 0,
         d_dat |-> IF got_d THEN dsum.d_dat ELSE 0,
         d_cats |-> IF got_d THEN [j \in DOMAIN disks |-> disks[j].category] ELSE <<>>,
         snap_count |-> IF got_s THEN UecsSnapSummary(snaps).snap_count ELSE 0,
         latest_snap_time |-> IF got_s THEN TimeStr(UecsSnapSummary(snaps).latest) ELSE "",
         status |-> ins.status,
         zone |-> _s(ins.zone_id),
         vpc |-> _s(IF ins.has_vpc THEN ins.vpc_id ELSE ""),
         created |-> _s(ins.creation_time)]

\* data_csv.append(row)
UecsCsvRow(f) ==
    <<f.ins_name, f.iid, f.itype, f.vcpu, f.mem, f.os, f.d_tot, f.d_sys,
      f.d_dat, _safe_join(f.d_cats), f.snap_count, f.latest_snap_time,
      _s(f.status), f.zone, f.vpc, f.created>>

\* data_html.append([...])
UecsHtmlRow(f) ==
    <<Escape(f.ins_name), uecs_link(f.iid), Escape(f.itype), f.vcpu, f.mem,
      Escape(f.os), f.d_tot, f.d_sys, f.d_dat, Escape(_safe_join(f.d_cats)),
      f.snap_count, f.latest_snap_time, uecs_badge(f.status), Escape(f.zone),
      Escape(f.vpc), Escape(f.created)>>

-----------------------------------------------------------------------------
(* The run: state shared by the four scripts *)

NoFile == [exists |-> FALSE, complete |-> FALSE, name |-> "", header |-> <<>>,
           rows |-> <<>>, summary |-> <<>>]

\* a file that open() created and whose write did not finish
PartialFile(name) == [exists |-> TRUE, complete |-> FALSE, name |-> name,
                      header |-> <<>>, rows |-> <<>>, summary |-> <<>>]

\* the run ends on an exception raised at step (connect, listing, lookup,
\* write): the handler prints it, or nothing catches it and the interpreter
\* prints the traceback
Abort(step) ==
    /\ pc' = "aborted-" \o step
    /\ errPrinted' = TRUE

AbortedPcs == {"aborted-args", "aborted-connect", "aborted-listing", "aborted-lookup", "aborted-write"}

\* a written file: its name, header row, data rows and summary block
File(name, header, rows, summary) ==
    [exists |-> TRUE, complete |-> TRUE, name |-> name, header |-> header,
     rows |-> rows, summary |-> summary]

\* writing one output file: it is written, or open() raises, or the write
\* raises after open() created the file; nothing catches either exception
WriteFile(kind, file, next) ==
    \E out \in {"ok", "open_raises", "write_raises"} :
        IF out = "ok"
        THEN /\ files' = [files EXCEPT ![kind] = file]
             /\ pc' = next
             /\ errPrinted' = errPrinted
        ELSE /\ Abort("write")
             /\ files' = IF out = "open_raises" THEN files
                         ELSE [files EXCEPT ![kind] = PartialFile(file.name)]

NoSums == [vcpu |-> 0, mem |-> 0, disk |-> 0, bytes |-> 0, objects |-> 0]

IdlePg == [fn |-> "idle", n |-> 0, st |-> PagingStart]
IdleFb == [b |-> Bytes(0), out |-> ZeroB, called |-> FALSE]
IdleCall == [fn |-> "idle", called |-> FALSE]

\* no report is open
IdleUi == [open |-> FALSE]

\* the secondary lookups that raised so far, counted
FaultsUsed == SumSeq([j \in DOMAIN faults |-> Cardinality(faults[j].raised)])

\* the provider may make the lookups of raised raise in this loop pass
MayRaise(raised) == FaultsUsed + Cardinality(raised) <= MaxFaults

\* the positions of the provider's top-level resources
AllRes == [i \in 1..nres |-> i]

InitMain ==
    /\ script \in Scripts
    /\ args \in {[skip_http_probe |-> x, has_profile |-> p, has_region |-> r] :
                    x \in IF script = "oss" THEN BOOLEAN ELSE {FALSE},
                    p \in BOOLEAN, r \in BOOLEAN}
    /\ nres \in 0..MaxRes
    /\ kinds \in {[i \in 1..nres |-> ((i + o) % 2) + 1] : o \in {0, 1}}
    /\ pc = "args"
    /\ page = 1
    /\ lastTotal = 0
    /\ pageItems = <<>>
    /\ rows_csv = <<>>
    /\ rows_html = <<>>
    /\ sums = NoSums
    /\ ims_map = {}
    /\ files = [f \in {"csv", "html"} |-> NoFile]
    /\ errPrinted = FALSE
    /\ printed_attr_error = FALSE
    /\ requests = {}
    /\ trace = <<>>
    /\ faults = <<>>
    /\ fatal = FALSE
    /\ pg = IdlePg
    /\ fb = IdleFb
    /\ call = IdleCall
    /\ ui = IdleUi

\* the command line is read: parse_args() of the updated ECS script and
\* of the OSS script require --profile and exit with a usage error without
\* it; the RAM script's --profile has the default "default";
\* alibaba-ecs-inventory.py has no parser and runs on PROFILE_NAME and
\* REGION_ID whatever the command line holds
ParseArgs ==
    /\ pc = "args"
    /\ IF script \in {"uecs", "oss"} /\ ~args.has_profile
       THEN Abort("args")
       ELSE pc' = "connect" /\ errPrinted' = errPrinted
    /\ UNCHANGED <<script, args, nres, kinds, page, lastTotal, pageItems, rows_csv,
                   rows_html, sums, ims_map, files, printed_attr_error,
                   requests, trace, faults, fatal, pg, fb, call, ui>>

\* the region the run works on: --region or its default, and REGION_ID of
\* alibaba-ecs-inventory.py
OtherRegion == "eu-central-1"
RegionUsed ==
    CASE script = "ecs" -> REGION_ID
      [] script = "uecs" -> IF args.has_region THEN OtherRegion ELSE "me-central-1"
      [] script = "oss" -> IF args.has_region THEN OtherRegion ELSE "me-central-1"
      [] script = "ram" -> IF args.has_region THEN OtherRegion ELSE "Global"

\* client and credentials: ecs_client_default(), EcsClient(...) in its try,
\* get_creds_from_json/oss2.Auth/oss2.Service in their try, get_clients()
Connect ==
    /\ pc = "connect"
    /\ \E ok \in BOOLEAN :
         /\ fatal' = ~ok
         /\ IF ok THEN /\ pc' = IF script = "ram" THEN "ims" ELSE "list"
                       /\ errPrinted' = errPrinted
            ELSE Abort("connect")
    /\ UNCHANGED <<script, args, nres, kinds, page, lastTotal, pageItems, rows_csv,
                   rows_html, sums, ims_map, files, printed_attr_error,
                   requests, trace, faults, pg, fb, call, ui>>

-----------------------------------------------------------------------------
(* Steps shared by the page-number loops of the two ECS scripts *)

\* the same request with its exception swallowed: the loop is left and the
\* report is written from what was collected (mutant)
InstancesPage_swallow(ok) ==
    /\ requests' = requests \cup {"DescribeInstances"}
    /\ trace' = Append(trace, "page:DescribeInstances")
    /\ IF ~ok THEN /\ pc' = "render"
                   /\ errPrinted' = TRUE
                   /\ UNCHANGED <<pageItems, lastTotal>>
       ELSE LET body == PageOf(AllRes, page, PageSize)
            IN  /\ pageItems' = body.items
                /\ lastTotal' = body.total_count
                /\ pc' = IF body.items = <<>> THEN "render" ELSE "page"
                /\ errPrinted' = errPrinted

\* DescribeInstances for the current page: the request raises (nothing
\* catches it), or the page is empty (break), or its instances are iterated
InstancesPage(ok) ==
    /\ requests' = requests \cup {"DescribeInstances"}
    /\ trace' = Append(trace, "page:DescribeInstances")
    /\ IF ~ok THEN Abort("listing") /\ UNCHANGED <<pageItems, lastTotal>>
       ELSE LET body == PageOf(AllRes, page, PageSize)
            IN  /\ pageItems' = body.items
                /\ lastTotal' = body.total_count
                /\ pc' = IF body.items = <<>> THEN "render" ELSE "page"
                /\ errPrinted' = errPrinted

\* after the for loop: if page * page_size >= total_count: break; page += 1
NextInstancesPage(sleeps) ==
    IF page * PageSize >= lastTotal
    THEN pc' = "render" /\ page' = page /\ trace' = trace
    ELSE /\ pc' = "list" /\ page' = page + 1
         /\ trace' = IF sleeps THEN Append(trace, "sleep") ELSE trace

-----------------------------------------------------------------------------
(* alibaba-ecs-inventory.py: main() *)

EcsDescribeInstances ==
    /\ script = "ecs" /\ pc = "list"
    /\ \E ok \in BOOLEAN : fatal' = ~ok /\ InstancesPage(ok)
    /\ UNCHANGED <<script, args, nres, kinds, page, rows_csv, rows_html, sums,
                   ims_map, files, printed_attr_error, faults, pg, fb, call, ui>>

\* the warning printed by every DescribeInstanceAttribute that raises
\* (mutant)
AttrWarns_always(printed, attr_raises) == attr_raises

\* the except block of get_os_image_best_effort prints its warning: when
\* DEBUG_PRINT_ATTR_ERRORS is set and _printed_attr_error is not
AttrWarns(printed, attr_raises) ==
    DEBUG_PRINT_ATTR_ERRORS /\ attr_raises /\ ~printed

\* the request, the warning and the sleep of one call of
\* get_os_image_best_effort, in order: both early returns come before the
\* request and before "if INSTANCE_ATTR_SLEEP: time.sleep(...)"
AttrTrace(attempted, attr_raises, printed) ==
    IF attempted
    THEN <<"lookup:DescribeInstanceAttribute">>
             \o (IF AttrWarns(printed, attr_raises) THEN <<"warn">> ELSE <<>>)
             \o (IF INSTANCE_ATTR_SLEEP THEN <<"sleep">> ELSE <<>>)
    ELSE <<>>

\* the requests, the warning and the sleeps of one pass of "for ins in
\* insts", in order
EcsPassTrace(f, attr_raises, printed) ==
    AttrTrace(f.attempted, attr_raises, printed)
        \o <<"lookup:DescribeDisks", "sleep">>
        \o (IF INCLUDE_SNAPSHOTS /\ Truthy(f.iid)
            THEN <<"lookup:DescribeSnapshots", "sleep">> ELSE <<>>)

\* the lookups of one loop pass that raised
EcsRaised(attr_raises, disks_raise, snaps_raise) ==
    (IF attr_raises THEN {"DescribeInstanceAttribute"} ELSE {})
        \cup (IF disks_raise THEN {"DescribeDisks"} ELSE {})
        \cup (IF snaps_raise THEN {"DescribeSnapshots"} ELSE {})

\* one pass of "for ins in insts"
EcsInstance ==
    /\ script = "ecs" /\ pc = "page" /\ pageItems # <<>>
    /\ \E attr_raises, disks_raise, snaps_raise \in BOOLEAN :
         LET i == Head(pageItems)
             f == EcsFields(i, kinds[i], attr_raises, disks_raise, snaps_raise)
         IN  /\ MayRaise(EcsRaised(attr_raises, disks_raise, snaps_raise))
             /\ attr_raises => f.attempted
             /\ snaps_raise => Truthy(f.iid)
             /\ rows_csv' = Append(rows_csv, EcsCsvRow(f))
             /\ rows_html' = Append(rows_html, EcsHtmlRow(f))
             /\ printed_attr_error' =
                    (printed_attr_error \/ AttrWarns(printed_attr_error, attr_raises))
             /\ trace' = trace \o EcsPassTrace(f, attr_raises, printed_attr_error)
             /\ requests' = requests
                    \cup (IF f.attempted THEN {"DescribeInstanceAttribute"} ELSE {})
                    \cup {"DescribeDisks"}
                    \cup (IF Truthy(f.iid) THEN {"DescribeSnapshots"} ELSE {})
             /\ faults' = Append(faults,
                    [res |-> i, raised |-> EcsRaised(attr_raises, disks_raise, snaps_raise)])
    /\ pageItems' = Tail(pageItems)
    /\ UNCHANGED <<script, args, nres, kinds, pc, page, lastTotal, sums, ims_map,
                   files, errPrinted, fatal, pg, fb, call, ui>>

EcsNextPage ==
    /\ script = "ecs" /\ pc = "page" /\ pageItems = <<>>
    /\ NextInstancesPage(TRUE)
    /\ UNCHANGED <<script, args, nres, kinds, lastTotal, pageItems, rows_csv,
                   rows_html, sums, ims_map, files, errPrinted,
                   printed_attr_error, requests, faults, fatal, pg, fb, call, ui>>

EcsBase == "alibaba-ecs-riyadh-(" \o PROFILE_NAME \o ")-20240101-0000"

\* df_csv.to_csv(csv_path)
EcsWriteCsv ==
    /\ script = "ecs" /\ pc = "render"
    /\ WriteFile("csv", File(EcsBase \o ".csv", HEADERS, rows_csv, <<>>), "write2")
    /\ UNCHANGED <<script, args, nres, kinds, page, lastTotal, pageItems, rows_csv,
                   rows_html, sums, ims_map, printed_attr_error, requests, trace,
                   faults, fatal, pg, fb, call, ui>>

\* write_html_table(df_html, html_path, title)
EcsWriteHtml ==
    /\ script = "ecs" /\ pc = "write2"
    /\ WriteFile("html",
                 File(EcsBase \o ".html", [j \in DOMAIN HEADERS |-> Escape(HEADERS[j])],
                      rows_html, [count |-> Len(rows_html)]),
                 "done")
    /\ UNCHANGED <<script, args, nres, kinds, page, lastTotal, pageItems, rows_csv,
                   rows_html, sums, ims_map, printed_attr_error, requests, trace,
                   faults, fatal, pg, fb, call, ui>>

-----------------------------------------------------------------------------
(* update-alibaba-ecs-inventory.py: main() *)

UecsDescribeInstances ==
    /\ script = "uecs" /\ pc = "list"
    /\ \E ok \in BOOLEAN : fatal' = ~ok /\ InstancesPage(ok)
    /\ UNCHANGED <<script, args, nres, kinds, page, rows_csv, rows_html, sums,
                   ims_map, files, printed_attr_error, faults, pg, fb, call, ui>>

\* one pass of "for ins in insts", the totals added before the lookups
\* (mutant)
UecsInstance_sumFirst ==
    /\ script = "uecs" /\ pc = "page" /\ pageItems # <<>>
    /\ \E disks_raise, snaps_raise \in BOOLEAN :
         LET i == Head(pageItems)
             f == UecsFields(i, kinds[i], disks_raise, snaps_raise)
             clean == UecsFields(i, kinds[i], FALSE, FALSE)
         IN  /\ MayRaise(EcsRaised(FALSE, disks_raise, snaps_raise))
             /\ ~(disks_raise /\ snaps_raise)
             /\ sums' = [sums EXCEPT !.vcpu = @ + f.vcpu, !.mem = @ + f.mem,
                                     !.disk = @ + clean.d_tot]
             /\ rows_csv' = Append(rows_csv, UecsCsvRow(f))
             /\ rows_html' = Append(rows_html, UecsHtmlRow(f))
             /\ requests' = requests \cup {"DescribeDisks"}
                    \cup (IF disks_raise THEN {} ELSE {"DescribeSnapshots"})
             /\ trace' = trace \o <<"lookup:DescribeDisks">>
                    \o (IF disks_raise THEN <<>> ELSE <<"lookup:DescribeSnapshots">>)
             /\ faults' = Append(faults,
                    [res |-> i, raised |-> EcsRaised(FALSE, disks_raise, snaps_raise)])
    /\ pageItems' = Tail(pageItems)
    /\ UNCHANGED <<script, args, nres, kinds, pc, page, lastTotal, ims_map, files,
                   errPrinted, printed_attr_error, fatal, pg, fb, call, ui>>

\* one pass of "for ins in insts": at most one of the two lookups of the
\* try block raises, and a raising DescribeDisks skips DescribeSnapshots
UecsInstance ==
    /\ script = "uecs" /\ pc = "page" /\ pageItems # <<>>
    /\ \E disks_raise, snaps_raise \in BOOLEAN :
         LET i == Head(pageItems)
             f == UecsFields(i, kinds[i], disks_raise, snaps_raise)
         IN  /\ MayRaise(EcsRaised(FALSE, disks_raise, snaps_raise))
             /\ ~(disks_raise /\ snaps_raise)
             /\ sums' = [sums EXCEPT !.vcpu = @ + f.vcpu, !.mem = @ + f.mem,
                                     !.disk = @ + f.d_tot]
             /\ rows_csv' = Append(rows_csv, UecsCsvRow(f))
             /\ rows_html' = Append(rows_html, UecsHtmlRow(f))
             /\ requests' = requests \cup {"DescribeDisks"}
                    \cup (IF disks_raise THEN {} ELSE {"DescribeSnapshots"})
             /\ trace' = trace \o <<"lookup:DescribeDisks">>
                    \o (IF disks_raise THEN <<>> ELSE <<"lookup:DescribeSnapshots">>)
             /\ faults' = Append(faults,
                    [res |-> i, raised |-> EcsRaised(FALSE, disks_raise, snaps_raise)])
    /\ pageItems' = Tail(pageItems)
    /\ UNCHANGED <<script, args, nres, kinds, pc, page, lastTotal, ims_map, files,
                   errPrinted, printed_attr_error, fatal, pg, fb, call, ui>>

UecsNextPage ==
    /\ script = "uecs" /\ pc = "page" /\ pageItems = <<>>
    /\ NextInstancesPage(FALSE)
    /\ UNCHANGED <<script, args, nres, kinds, lastTotal, pageItems, rows_csv,
                   rows_html, sums, ims_map, files, errPrinted,
                   printed_attr_error, requests, faults, fatal, pg, fb, call, ui>>

UecsBase == "ecs-inventory-(" \o TENANT_NAME \o ")-20240101-0000"

\* summary = {"count": ..., "vcpu": ..., "mem": ..., "disk": ...}
UecsSummary == [count |-> Len(rows_csv), vcpu |-> sums.vcpu, mem |-> sums.mem,
                disk |-> sums.disk]

\* pd.DataFrame(data_csv, columns=heads).to_csv(...)
UecsWriteCsv ==
    /\ script = "uecs" /\ pc = "render"
    /\ WriteFile("csv", File(UecsBase \o ".csv", heads, rows_csv, <<>>), "write2")
    /\ UNCHANGED <<script, args, nres, kinds, page, lastTotal, pageItems, rows_csv,
                   rows_html, sums, ims_map, printed_attr_error, requests, trace,
                   faults, fatal, pg, fb, call, ui>>

\* write_html_report(pd.DataFrame(data_html, columns=heads), ..., summary)
UecsWriteHtml ==
    /\ script = "uecs" /\ pc = "write2"
    /\ WriteFile("html",
                 File(UecsBase \o ".html", [j \in DOMAIN heads |-> Escape(heads[j])],
                      rows_html, UecsSummary),
                 "done")
    /\ UNCHANGED <<script, args, nres, kinds, page, lastTotal, pageItems, rows_csv,
                   rows_html, sums, ims_map, printed_attr_error, requests, trace,
                   faults, fatal, pg, fb, call, ui>>

-----------------------------------------------------------------------------
(* Timestamps: parse_timestamp (alibaba-ram-inventory.py) and safe_date    *)
(* (oss-inventory.py).  Epoch values reach 10^12 and beyond, so an integer *)
(* n is held as the pair q, r with n = q * 10^6 + r, 0 <= r < 10^6.  A     *)
(* timestamp is what the provider hands over: nothing (None, "" or the     *)
(* int 0), an int or an all-digit string, an ISO-8601 string (its date     *)
(* part, its separator, the wall-clock second it names and its zone        *)
(* suffix) or other text (its characters).  The calendar fields of a       *)
(* display string are not spelled out: a formatted instant is written as   *)
(* the count of its local seconds, which strftime maps one-to-one to text  *)
(* for the years 1..9999.                                                  *)

BigOf(n) == [q |-> n \div 1000000, r |-> n % 1000000]

\* n * 1000
BigMul1000(n) == [q |-> n \div 1000, r |-> (n % 1000) * 1000]

\* b // 1000
BigDiv1000(b) == [q |-> b.q \div 1000, r |-> (b.q % 1000) * 1000 + b.r \div 1000]

BigLe(a, b) == a.q < b.q \/ (a.q = b.q /\ a.r <= b.r)

\* b + k, for b + k >= 0 and -10^6 < k < 10^6
BigAdd(b, k) ==
    LET t == b.r + k
    IN  IF t < 0 THEN [q |-> b.q - 1, r |-> t + 1000000]
        ELSE [q |-> b.q + t \div 1000000, r |-> t % 1000000]

\* b % 86400
BigMod86400(b) == ((((b.q % 86400) * 496) % 86400) * 100 + b.r) % 86400

\* the decimal digits of n, one character each
RECURSIVE DigitChars(_)
DigitChars(n) ==
    LET d == <<"0", "1", "2", "3", "4", "5", "6", "7", "8", "9">>[(n % 10) + 1]
    IN  IF n < 10 THEN <<d>> ELSE Append(DigitChars(n \div 10), d)

RECURSIVE ZeroPad(_, _)
ZeroPad(chars, width) ==
    IF Len(chars) >= width THEN chars ELSE ZeroPad(<<"0">> \o chars, width)

\* str(n)
BigChars(b) ==
    IF b.q = 0 THEN DigitChars(b.r)
    ELSE DigitChars(b.q) \o ZeroPad(DigitChars(b.r), 6)

\* the string made of the characters chars
RECURSIVE Concat(_)
Concat(chars) == IF chars = <<>> THEN "" ELSE Head(chars) \o Concat(Tail(chars))

\* str.strip()
RECURSIVE Strip(_)
Strip(chars) ==
    IF chars = <<>> THEN chars
    ELSE IF Head(chars) = " " THEN Strip(Tail(chars))
    ELSE IF chars[Len(chars)] = " " THEN Strip(SubSeq(chars, 1, Len(chars) - 1))
    ELSE chars

\* s[:10]
First10(chars) == SubSeq(chars, 1, Min(10, Len(chars)))

\* s.split("T")[0]
RECURSIVE BeforeT(_)
BeforeT(chars) ==
    IF chars = <<>> \/ Head(chars) = "T" THEN <<>>
    ELSE <<Head(chars)>> \o BeforeT(Tail(chars))

NoBig == [q |-> 0, r |-> 0]

\* None or ""
NoTime == [kind |-> "none", isstr |-> FALSE, n |-> NoBig, wall |-> NoBig,
           tz |-> "", sep |-> "", date |-> "", chars |-> <<>>]

\* the int n, or the string of its digits
IntTime(n, isstr) == [NoTime EXCEPT !.kind = "int", !.isstr = isstr, !.n = n]

\* an ISO-8601 string: date part, separator ("T" or " "), the wall-clock
\* second it names (counted from 1970-01-01 00:00:00) and its zone suffix
\* ("Z", "+03:00" or "" for none)
IsoString(date, sep, wall, tz) ==
    [NoTime EXCEPT !.kind = "iso", !.isstr = TRUE, !.date = date, !.sep = sep,
                   !.wall = wall, !.tz = tz]

\* a string that is neither all digits nor ISO-8601
TextTime(chars) == [NoTime EXCEPT !.kind = "text", !.isstr = TRUE, !.chars = chars]

\* "not ts"
Falsy(ts) == ts.kind = "none" \/ (ts.kind = "int" /\ ~ts.isstr /\ ts.n = NoBig)

\* midnight UTC of the date, as OSS reports a bucket's creation date
IsoTime(date) == IsoString(date, "T", BigOf(1682899200), "Z")

\* midnight UTC of day n of January 2024
DayTime(n) ==
    IsoString("2024-01-0" \o ToString(n), "T", BigOf(1704067200 + (n - 1) * 86400), "Z")

\* timezone(timedelta(hours=3)), in seconds
LOCAL_TZ == 3 * 3600

\* the last second datetime can hold: 9999-12-31 23:59:59
DATETIME_MAX == [q |-> 253402, r |-> 300799]

\* 10**12
MS_THRESHOLD == [q |-> 1000000, r |-> 0]

\* dt.astimezone(LOCAL_TZ).strftime(DT_FMT) of the instant whose local
\* wall clock reads second number b
LocalText(b) == "UTC+3 " \o Concat(BigChars(b))

\* datetime.fromtimestamp(int(ts)).strftime("%Y-%m-%d"): the day of second b
DayText(b) == "day of " \o Concat(BigChars(BigAdd(b, -BigMod86400(b))))

\* the seconds parse_timestamp reads from digits, with every all-digit
\* value read as seconds (mutant)
EpochSecs_noMs(n) == n

\* n/1000.0 if n > 10**12 else n
EpochSecs(n) == IF ~BigLe(n, MS_THRESHOLD) THEN BigDiv1000(n) ELSE n

\* the UTC offset fromisoformat reads from the zone suffix, "Z" rewritten
\* to "+00:00" and no suffix read as UTC
IsoOffset(tz) == IF tz = "+03:00" THEN 3 * 3600 ELSE 0

\* parse_timestamp
parse_timestamp(ts) ==
    IF Falsy(ts) THEN "Never"
    ELSE CASE ts.kind = "int" ->
                  LET local == BigAdd(EpochSecs(ts.n), LOCAL_TZ)
                  IN  IF BigLe(local, DATETIME_MAX) THEN LocalText(local)
                      ELSE Concat(BigChars(ts.n))      \* except: return s
           [] ts.kind = "iso" ->
                  LocalText(BigAdd(BigAdd(ts.wall, -IsoOffset(ts.tz)), LOCAL_TZ))
           [] OTHER -> Concat(Strip(ts.chars))          \* except: return s

\* safe_date
safe_date(ts) ==
    IF Falsy(ts) THEN "N/A"
    ELSE CASE ts.kind = "int" ->
                  IF BigLe(ts.n, DATETIME_MAX) THEN DayText(ts.n)
                  ELSE Concat(First10(BigChars(ts.n)))
           [] ts.kind = "iso" -> ts.date
           [] OTHER ->
                  IF "T" \in Range(ts.chars) THEN Concat(BeforeT(ts.chars))
                  ELSE Concat(First10(ts.chars))

-----------------------------------------------------------------------------
(* oss-inventory.py: provider data and helpers *)

\* bucket i of the ListBuckets result with what its lookups answer
Bucket(i, k) ==
    [name |-> ResName(i),
     location |-> "oss-me-central-1",
     extranet_endpoint |-> "oss-me-central-1.aliyuncs.com",
     storage_class |-> IF k = 1 THEN "Standard" ELSE "IA",
     grant |-> IF k = 1 THEN "private" ELSE "public-read",
     data_redundancy_type |-> IF k = 1 THEN "LRS" ELSE "ZRS",
     creation_date |-> IF k = 1 THEN IsoTime("2023-05-01") ELSE NoTime,
     storage_size_in_bytes |-> IF k = 1 THEN 1536 ELSE 0,
     object_count |-> IF k = 1 THEN 3 ELSE 0,
     versioning |-> IF k = 1 THEN "Enabled" ELSE NONE,
     acceleration |-> k = 1,
     target_bucket |-> IF k = 1 THEN "logs" ELSE NONE,
     target_prefix |-> IF k = 1 THEN "access" ELSE NONE]

\* the text of a format_bytes result
BytesText(r) ==
    IF r.zero THEN "0 B"
    ELSE LET f == r.h % 100
         IN  ToString(r.h \div 100) \o "."
                 \o (IF f < 10 THEN "0" \o ToString(f) ELSE ToString(f))
                 \o " " \o r.unit

\* location.replace("oss-", "") over the locations of this model
StripOss(loc) == IF loc = "oss-me-central-1" THEN "me-central-1" ELSE loc

\* str.upper of the lower-cased badge texts of this model
Upper(s) ==
    CASE s = "private" -> "PRIVATE"
      [] s = "public-read" -> "PUBLIC-READ"
      [] s = "lrs" -> "LRS"
      [] s = "zrs" -> "ZRS"
      [] OTHER -> "UNKNOWN"

LowerBadge(s) ==
    CASE s = "LRS" -> "lrs"
      [] s = "ZRS" -> "zrs"
      [] s = "Unknown" -> "unknown"
      [] OTHER -> s

\* _badge(val, type) of the OSS script
oss_badge(val, type) ==
    LET v == LowerBadge(Or(val, "Unknown"))
        bg == IF type = "acl"
              THEN (CASE v = "private" -> "#16a34a"
                      [] v = "public-read" -> "#ea580c"
                      [] v = "public-read-write" -> "#dc2626"
                      [] OTHER -> "#64748b")
              ELSE (CASE v = "zrs" -> "#2563eb"
                      [] v = "lrs" -> "#475569"
                      [] OTHER -> "#64748b")
    IN  "<span class='badge' style='background:" \o bg \o ";color:white'>"
            \o Upper(v) \o "</span>"

\* get_access_logging_status; log_raises: get_bucket_logging raises
get_access_logging_status(b, log_raises) ==
    IF ~log_raises /\ Truthy(b.target_bucket)
    THEN [enabled |-> "Yes",
          target |-> IF Truthy(b.target_prefix)
                     THEN b.target_bucket \o "/" \o b.target_prefix
                     ELSE b.target_bucket]
    ELSE [enabled |-> "No", target |-> "N/A"]

\* http_public_probe; probe_raises: the HEAD request raises
http_public_probe(probe_raises) ==
    IF probe_raises THEN "Not Reachable" ELSE "Reachable (200)"

OssColumns ==
    <<"Bucket Name", "Region", "Storage Class", "Capacity", "Objects", "ACL",
      "Redundancy", "Versioning", "Acceleration", "Created At", "Client TLS",
      "Access Logging", "Log Target", "HTTP Public Probe">>

\* the dict appended to data_rows, as its values in key order
OssRow(b, vers_raises, accel_raises, log_raises, probe_raises) ==
    LET logging == get_access_logging_status(b, log_raises)
    IN  <<b.name,
          StripOss(b.location),
          b.storage_class,
          BytesText(format_bytes(Bytes(b.storage_size_in_bytes))),
          b.object_count,
          b.grant,
          b.data_redundancy_type,
          IF vers_raises THEN "Off" ELSE Or(b.versioning, "Off"),
          IF accel_raises THEN "Disabled"
          ELSE IF b.acceleration THEN "Enabled" ELSE "Disabled",
          safe_date(b.creation_date),
          "Yes (HTTPS)",
          logging.enabled,
          logging.target,
          IF args.skip_http_probe THEN "Skipped" ELSE http_public_probe(probe_raises)>>

\* the cells of one <tr> of rows_html
OssHtmlRow(row) ==
    [j \in DOMAIN row |->
        IF OssColumns[j] = "ACL" THEN oss_badge(row[j], "acl")
        ELSE IF OssColumns[j] = "Redundancy" THEN oss_badge(row[j], "redundancy")
        ELSE row[j]]

\* the lookups of one loop pass that raised
OssRaised(info, stat, vers, accel, log, probe) ==
    (IF info THEN {"GetBucketInfo"} ELSE {})
        \cup (IF stat THEN {"GetBucketStat"} ELSE {})
        \cup (IF vers THEN {"GetBucketVersioning"} ELSE {})
        \cup (IF accel THEN {"GetBucketTransferAcceleration"} ELSE {})
        \cup (IF log THEN {"GetBucketLogging"} ELSE {})
        \cup (IF probe THEN {"HEAD"} ELSE {})

-----------------------------------------------------------------------------
(* oss-inventory.py: main() *)

\* service.list_buckets().buckets: one request, answered with the
\* provider's first page; the result's is_truncated is not read
OssListBuckets ==
    /\ script = "oss" /\ pc = "list"
    /\ requests' = requests \cup {"ListBuckets"}
    /\ trace' = Append(trace, "page:ListBuckets")
    /\ \E ok \in BOOLEAN :
         /\ fatal' = ~ok
         /\ IF ~ok THEN Abort("listing") /\ UNCHANGED <<pageItems, lastTotal>>
            ELSE /\ pageItems' = PageOf(AllRes, 1, PageSize).items
                 /\ lastTotal' = IF nres > PageSize THEN 1 ELSE 0
                 /\ pc' = "page"
                 /\ errPrinted' = errPrinted
    /\ UNCHANGED <<script, args, nres, kinds, page, rows_csv, rows_html, sums,
                   ims_map, files, printed_attr_error, faults, pg, fb, call, ui>>

\* the requests of one loop pass, with the logging configuration written
\* instead of read (mutant)
OssLookups_put(info, stat) ==
    IF info THEN {"GetBucketInfo"}
    ELSE IF stat THEN {"GetBucketInfo", "GetBucketStat"}
    ELSE {"GetBucketInfo", "GetBucketStat", "GetBucketVersioning",
          "GetBucketTransferAcceleration", "PutBucketLogging"}
         \cup (IF args.skip_http_probe THEN {} ELSE {"HEAD"})

\* the requests one loop pass issues; info, stat: that lookup raises
OssLookups(info, stat) ==
    IF info THEN {"GetBucketInfo"}
    ELSE IF stat THEN {"GetBucketInfo", "GetBucketStat"}
    ELSE {"GetBucketInfo", "GetBucketStat", "GetBucketVersioning",
          "GetBucketTransferAcceleration", "GetBucketLogging"}
         \cup (IF args.skip_http_probe THEN {} ELSE {"HEAD"})

\* the requests of one loop pass, in order
OssPassTrace(info, stat) ==
    LET all == <<"GetBucketInfo", "GetBucketStat", "GetBucketVersioning",
                 "GetBucketTransferAcceleration", "GetBucketLogging", "HEAD">>
        n == IF info THEN 1 ELSE IF stat THEN 2
             ELSE IF args.skip_http_probe THEN 5 ELSE 6
    IN  [j \in 1..n |-> "lookup:" \o all[j]]

\* one pass of "for b in buckets": a raising get_bucket_info or
\* get_bucket_stat reaches the outer except (continue), the other lookups
\* have their own handlers
OssBucket ==
    /\ script = "oss" /\ pc = "page" /\ pageItems # <<>>
    /\ \E info, stat, vers, accel, log, probe \in BOOLEAN :
         LET i == Head(pageItems)
             b == Bucket(i, kinds[i])
             raised == OssRaised(info, stat, vers, accel, log, probe)
             row == OssRow(b, vers, accel, log, probe)
         IN  /\ MayRaise(raised)
             /\ info => ~(stat \/ vers \/ accel \/ log \/ probe)
             /\ stat => ~(vers \/ accel \/ log \/ probe)
             /\ probe => ~args.skip_http_probe
             /\ faults' = Append(faults, [res |-> i, raised |-> raised])
             /\ requests' = requests \cup OssLookups(info, stat)
             /\ trace' = trace \o OssPassTrace(info, stat)
             /\ IF info \/ stat
                THEN UNCHANGED <<sums, rows_csv, rows_html>>
                ELSE /\ sums' = [sums EXCEPT !.bytes = @ + b.storage_size_in_bytes,
                                             !.objects = @ + b.object_count]
                     /\ rows_csv' = Append(rows_csv, row)
                     /\ rows_html' = Append(rows_html, OssHtmlRow(row))
    /\ pageItems' = Tail(pageItems)
    /\ UNCHANGED <<script, args, nres, kinds, pc, page, lastTotal, ims_map,
                   files, errPrinted, printed_attr_error, fatal, pg, fb, call, ui>>

\* after the loop: "if not data_rows: ... return"
OssEndLoop ==
    /\ script = "oss" /\ pc = "page" /\ pageItems = <<>>
    /\ pc' = IF rows_csv = <<>> THEN "done" ELSE "render"
    /\ UNCHANGED <<script, args, nres, kinds, page, lastTotal, pageItems,
                   rows_csv, rows_html, sums, ims_map, files, errPrinted,
                   printed_attr_error, requests, trace, faults, fatal, pg, fb, call, ui>>

OssBase == "masdr-oss-dashboard-(" \o TENANT_NAME \o ")-20240101-0000"

\* the stats bar of the HTML page
OssSummary == [count |-> Len(rows_csv),
               capacity |-> BytesText(format_bytes(Bytes(sums.bytes))),
               objects |-> sums.objects]

\* open(f"{out_base}.html", "w") ... f.write(html_out)
OssWriteHtml ==
    /\ script = "oss" /\ pc = "render"
    /\ WriteFile("html", File(OssBase \o ".html", OssColumns, rows_html, OssSummary),
                 "write2")
    /\ UNCHANGED <<script, args, nres, kinds, page, lastTotal, pageItems,
                   rows_csv, rows_html, sums, ims_map, printed_attr_error,
                   requests, trace, faults, fatal, pg, fb, call, ui>>

\* pd.DataFrame(data_rows).to_csv(f"{out_base}.csv", index=False)
OssWriteCsv ==
    /\ script = "oss" /\ pc = "write2"
    /\ WriteFile("csv", File(OssBase \o ".csv", OssColumns, rows_csv, <<>>), "done")
    /\ UNCHANGED <<script, args, nres, kinds, page, lastTotal, pageItems,
                   rows_csv, rows_html, sums, ims_map, printed_attr_error,
                   requests, trace, faults, fatal, pg, fb, call, ui>>

-----------------------------------------------------------------------------
(* alibaba-ram-inventory.py: provider data and helpers *)

\* user i of the RAM ListUsers listing
RamUser(i, k) ==
    [UserName |-> ResName(i),
     UserId |-> i,
     DisplayName |-> IF k = 1 THEN "web&db" ELSE NONE,
     CreateDate |-> DayTime(1)]

\* user i of the IMS ListUsers listing
ImsUser(i, k) ==
    [UserId |-> i,
     Status |-> IF k = 1 THEN "Disabled" ELSE NONE,
     UserPrincipalName |-> IF k = 1 THEN ResName(i) \o "@tenant" ELSE NONE,
     LastLoginDate |-> IF k = 1 THEN DayTime(8) ELSE NoTime]

\* ims_map.get(u_id, {}): the fields of an absent entry read as None
NoImsUser == [UserId |-> 0, Status |-> NONE, UserPrincipalName |-> NONE,
              LastLoginDate |-> NoTime]

PoliciesOf(k) == IF k = 1 THEN <<"AdministratorAccess", "ReadOnly">> ELSE <<>>
GroupsOf(k) == IF k = 1 THEN <<"devs", "ops">> ELSE <<>>

\* the access keys of a user of variant k, with what
\* GetAccessKeyLastUsed answers for each
AccessKeysOf(k) ==
    IF k = 1
    THEN <<[AccessKeyId |-> "ak-1", Status |-> "Inactive", CreateDate |-> DayTime(3),
            LastUsedDate |-> NoTime],
           [AccessKeyId |-> "ak-2", Status |-> "Active", CreateDate |-> DayTime(7),
            LastUsedDate |-> DayTime(9)],
           [AccessKeyId |-> "ak-3", Status |-> "Inactive", CreateDate |-> DayTime(5),
            LastUsedDate |-> DayTime(4)]>>
    ELSE <<>>

\* the loop's test never true, so that it never breaks (mutant)
LastUsedFound_never(lu_date) == FALSE

\* if lu_date != "Never": ak_last_used = lu_date; break
LastUsedFound(lu_date) == lu_date # "Never"

\* the first key listed, whatever its CreateDate (mutant)
LatestKey_first(aks) == aks[1]

\* sorted(aks, key=CreateDate, reverse=True)[0]: the first key with the
\* greatest CreateDate
LatestKey(aks) ==
    LET best == CHOOSE j \in DOMAIN aks :
                    /\ \A l \in DOMAIN aks : BigLe(aks[l].CreateDate.wall, aks[j].CreateDate.wall)
                    /\ \A l \in 1..(j - 1) : ~BigLe(aks[j].CreateDate.wall, aks[l].CreateDate.wall)
    IN  aks[best]

\* the "for ak in aks" loop from key j on; lu_raises: the keys whose
\* GetAccessKeyLastUsed raises.  asked: the keys a lookup was issued for,
\* in the order of the lookups
RECURSIVE LastUsedLoop(_, _, _, _)
LastUsedLoop(aks, j, lu_raises, asked) ==
    IF j > Len(aks) THEN [ak_last_used |-> "Never", asked |-> asked]
    ELSE IF j \in lu_raises
         THEN LastUsedLoop(aks, j + 1, lu_raises, Append(asked, j))
         ELSE LET lu_date == parse_timestamp(aks[j].LastUsedDate)
              IN  IF LastUsedFound(lu_date)
                  THEN [ak_last_used |-> lu_date, asked |-> Append(asked, j)]
                  ELSE LastUsedLoop(aks, j + 1, lu_raises, Append(asked, j))


ram_headers ==
    <<"Profile", "User Name", "Display Name", "Status", "User Creation Date",
      "Permissions (Direct)", "Groups", "MFA", "AccessKey Pair Status",
      "AccessKey Pair Generated Date", "AccessKey Pair Last Used",
      "Last User Login">>

\* "Access Key Logic": keys is what ListAccessKeys answers for the user,
\* asked only "if ims_u.get("UserPrincipalName")"
AccessKeyFields(ims_u, keys, lu_raises) ==
    LET has_upn == Truthy(ims_u.UserPrincipalName)
        aks == IF has_upn THEN keys ELSE <<>>
        lu == LastUsedLoop(aks, 1, lu_raises, <<>>)
    IN  [has_upn |-> has_upn,
         ak_status |-> IF aks = <<>> THEN "None"
                       ELSE IF \E j \in DOMAIN aks : aks[j].Status = "Active"
                            THEN "Active" ELSE "Inactive",
         ak_gen_date |-> IF aks = <<>> THEN "N/A"
                         ELSE parse_timestamp(LatestKey(aks).CreateDate),
         ak_last_used |-> lu.ak_last_used,
         asked |-> lu.asked]

\* the part of the loop body that follows the lookups that nothing guards
RamFields(i, k, ims_u, pol_raises, lu_raises) ==
    LET u == RamUser(i, k)
        perm_list == IF pol_raises THEN <<>> ELSE PoliciesOf(k)
        ak == AccessKeyFields(ims_u, AccessKeysOf(k), lu_raises)
    IN  [u_name |-> u.UserName,
         display |-> u.DisplayName,
         status |-> IF ims_u.Status = NONE THEN "Active" ELSE ims_u.Status,
         user_creation_date |-> parse_timestamp(u.CreateDate),
         perms_str |-> IF perm_list # <<>> THEN JoinWith(perm_list, ", ")
                       ELSE "None (Group Only)",
         groups |-> Or(JoinWith(GroupsOf(k), ", "), "None"),
         mfa |-> IF ims_u.LastLoginDate.kind # "none" THEN "Yes" ELSE "No",
         has_upn |-> ak.has_upn,
         ak_status |-> ak.ak_status,
         ak_gen_date |-> ak.ak_gen_date,
         ak_last_used |-> ak.ak_last_used,
         asked |-> ak.asked,
         last_login |-> parse_timestamp(ims_u.LastLoginDate)]

\* data_rows.append([...])
RamRow(f) ==
    <<"default", f.u_name, f.display, f.status, f.user_creation_date,
      f.perms_str, f.groups, f.mfa, f.ak_status, f.ak_gen_date,
      f.ak_last_used, f.last_login>>

\* str() of a cell
Str(c) == IF c = NONE THEN "None" ELSE c

\* a cell as csv.writer writes it
CsvText(c) == IF c = NONE THEN "" ELSE c

\* the requests and the sleep of one pass of "for u in ...", in order;
\* grp, keys: list_groups_for_user, list_access_keys raises and ends the run
RamPassTrace(f, grp, keys) ==
    <<"lookup:ListPoliciesForUser", "lookup:ListGroupsForUser">>
        \o (IF grp THEN <<>>
            ELSE IF ~f.has_upn THEN <<"sleep">>
            ELSE <<"lookup:ListAccessKeys">>
                     \o (IF keys THEN <<>>
                         ELSE [j \in DOMAIN f.asked |->
                                  "lookup:GetAccessKeyLastUsed:" \o ToString(f.asked[j])]
                                  \o <<"sleep">>))

\* the lookups of one loop pass that raised
RamRaised(pol, grp, keys, lu_raises) ==
    (IF pol THEN {"ListPoliciesForUser"} ELSE {})
        \cup (IF grp THEN {"ListGroupsForUser"} ELSE {})
        \cup (IF keys THEN {"ListAccessKeys"} ELSE {})
        \cup {"GetAccessKeyLastUsed:" \o ToString(j) : j \in lu_raises}

-----------------------------------------------------------------------------
(* alibaba-ram-inventory.py: main() *)

\* one pass of the first "while True": IMS ListUsers from the marker on;
\* the provider answers a page and says whether more follow
ImsListUsers ==
    /\ script = "ram" /\ pc = "ims"
    /\ requests' = requests \cup {"ims:ListUsers"}
    /\ trace' = Append(trace, "page:ims:ListUsers")
    /\ \E ok \in BOOLEAN :
         /\ fatal' = ~ok
         /\ IF ~ok THEN Abort("listing") /\ UNCHANGED <<ims_map, page>>
            ELSE LET resp == PageOf(AllRes, page, PageSize)
                     IsTruncated == page * PageSize < nres
                 IN  /\ ims_map' = ims_map \cup Range(resp.items)
                     /\ IF IsTruncated
                        THEN pc' = "ims" /\ page' = page + 1
                        ELSE pc' = "list" /\ page' = 1
                     /\ errPrinted' = errPrinted
    /\ UNCHANGED <<script, args, nres, kinds, lastTotal, pageItems, rows_csv,
                   rows_html, sums, files, printed_attr_error, faults, pg, fb, call, ui>>

\* the request of one pass of the second "while True": RAM ListUsers
RamListUsers ==
    /\ script = "ram" /\ pc = "list"
    /\ requests' = requests \cup {"ram:ListUsers"}
    /\ trace' = Append(trace, "page:ram:ListUsers")
    /\ \E ok \in BOOLEAN :
         /\ fatal' = ~ok
         /\ IF ~ok THEN Abort("listing") /\ UNCHANGED <<pageItems, lastTotal>>
            ELSE LET resp == PageOf(AllRes, page, PageSize)
                 IN  /\ pageItems' = resp.items
                     /\ lastTotal' = IF page * PageSize < nres THEN 1 ELSE 0
                     /\ pc' = "page"
                     /\ errPrinted' = errPrinted
    /\ UNCHANGED <<script, args, nres, kinds, page, rows_csv, rows_html, sums,
                   ims_map, files, printed_attr_error, faults, pg, fb, call, ui>>

\* one pass of "for u in ...": list_policies_for_user and
\* get_access_key_last_used sit in try blocks, list_groups_for_user and
\* list_access_keys do not
RamUserPass ==
    /\ script = "ram" /\ pc = "page" /\ pageItems # <<>>
    /\ \E pol, grp, keys \in BOOLEAN, lu_raises \in SUBSET (1..3) :
         LET i == Head(pageItems)
             ims_u == IF i \in ims_map THEN ImsUser(i, kinds[i]) ELSE NoImsUser
             f == RamFields(i, kinds[i], ims_u, pol, lu_raises)
             raised == RamRaised(pol, grp, keys, lu_raises)
         IN  /\ MayRaise(raised)
             /\ grp => ~keys /\ lu_raises = {}
             /\ keys => f.has_upn /\ lu_raises = {}
             /\ lu_raises \subseteq Range(f.asked)
             /\ faults' = Append(faults, [res |-> i, raised |-> raised])
             /\ requests' = requests \cup {"ListPoliciesForUser", "ListGroupsForUser"}
                    \cup (IF ~grp /\ f.has_upn THEN {"ListAccessKeys"} ELSE {})
                    \cup (IF ~grp /\ ~keys /\ f.asked # <<>>
                          THEN {"GetAccessKeyLastUsed"} ELSE {})
             /\ trace' = trace \o RamPassTrace(f, grp, keys)
             /\ IF grp \/ keys
                THEN /\ Abort("lookup")
                     /\ UNCHANGED <<rows_csv, rows_html, pageItems>>
                ELSE /\ rows_csv' = Append(rows_csv, RamRow(f))
                     /\ rows_html' = rows_html
                     /\ pageItems' = Tail(pageItems)
                     /\ pc' = pc
                     /\ errPrinted' = errPrinted
    /\ UNCHANGED <<script, args, nres, kinds, page, lastTotal, sums, ims_map,
                   files, printed_attr_error, fatal, pg, fb, call, ui>>

\* after the for loop: marker = resp.get("Marker"); break unless IsTruncated
RamNextPage ==
    /\ script = "ram" /\ pc = "page" /\ pageItems = <<>>
    /\ IF lastTotal = 0
       THEN pc' = "render" /\ page' = page
       ELSE pc' = "list" /\ page' = page + 1
    /\ UNCHANGED <<script, args, nres, kinds, lastTotal, pageItems, rows_csv,
                   rows_html, sums, ims_map, files, errPrinted,
                   printed_attr_error, requests, trace, faults, fatal, pg, fb, call, ui>>

RamBase == "alibaba-ram-audit-(default)_20240101_0000"

\* csv.writer(f).writerows([headers] + data_rows)
RamWriteCsv ==
    /\ script = "ram" /\ pc = "render"
    /\ WriteFile("csv",
                 File(RamBase \o ".csv", ram_headers,
                      [r \in DOMAIN rows_csv |->
                          [c \in DOMAIN rows_csv[r] |-> CsvText(rows_csv[r][c])]],
                      <<>>),
                 "write2")
    /\ UNCHANGED <<script, args, nres, kinds, page, lastTotal, pageItems,
                   rows_csv, rows_html, sums, ims_map, printed_attr_error,
                   requests, trace, faults, fatal, pg, fb, call, ui>>

\* the header cells and the <td> cells of build_html
build_html(headers, rows) ==
    [header |-> [j \in DOMAIN headers |-> Escape(headers[j])],
     rows |-> [r \in DOMAIN rows |->
                  [c \in DOMAIN rows[r] |-> Escape(Str(rows[r][c]))]],
     count |-> Len(rows)]

\* f.write(build_html(args.profile, args.region, headers, data_rows))
RamWriteHtml ==
    /\ script = "ram" /\ pc = "write2"
    /\ LET h == build_html(ram_headers, rows_csv)
       IN  WriteFile("html", File(RamBase \o ".html", h.header, h.rows,
                                  [count |-> h.count]),
                     "done")
    /\ UNCHANGED <<script, args, nres, kinds, page, lastTotal, pageItems,
                   rows_csv, rows_html, sums, ims_map, printed_attr_error,
                   requests, trace, faults, fatal, pg, fb, call, ui>>

-----------------------------------------------------------------------------
(* The four scripts as one system *)

EcsNext ==
    \/ EcsDescribeInstances
    \/ EcsInstance
    \/ EcsNextPage
    \/ EcsWriteCsv
    \/ EcsWriteHtml

UecsNext ==
    \/ UecsDescribeInstances
    \/ UecsInstance
    \/ UecsNextPage
    \/ UecsWriteCsv
    \/ UecsWriteHtml

OssNext ==
    \/ OssListBuckets
    \/ OssBucket
    \/ OssEndLoop
    \/ OssWriteHtml
    \/ OssWriteCsv

RamNext ==
    \/ ImsListUsers
    \/ RamListUsers
    \/ RamUserPass
    \/ RamNextPage
    \/ RamWriteCsv
    \/ RamWriteHtml

Next == ParseArgs \/ Connect \/ EcsNext \/ UecsNext \/ OssNext \/ RamNext

Spec == InitMain /\ [][Next]_vars

-----------------------------------------------------------------------------
(* The paginated disk and snapshot listings on their own: the provider     *)
(* holds pg.n items, serves them SUB_PAGE_SIZE a page and reports          *)
(* total_count = pg.n on every page                                        *)

\* the provider's items of a secondary listing
PgItems(n) == [j \in 1..n |-> [id |-> j, creation_time |-> (j * 7) % 10]]

IdleMain ==
    /\ script = "ecs"
    /\ args = [skip_http_probe |-> FALSE, has_profile |-> TRUE, has_region |-> FALSE]
    /\ nres = 0
    /\ kinds = <<>>
    /\ pc = "idle"
    /\ page = 1
    /\ lastTotal = 0
    /\ pageItems = <<>>
    /\ rows_csv = <<>>
    /\ rows_html = <<>>
    /\ sums = NoSums
    /\ ims_map = {}
    /\ files = [f \in {"csv", "html"} |-> NoFile]
    /\ errPrinted = FALSE
    /\ printed_attr_error = FALSE
    /\ requests = {}
    /\ trace = <<>>
    /\ faults = <<>>
    /\ fatal = FALSE

InitPaging ==
    /\ IdleMain
    /\ pg \in {[fn |-> f, n |-> n, st |-> PagingStart] :
                  f \in {"disks", "snaps"}, n \in 0..MaxItems}
    /\ fb = IdleFb
    /\ call = IdleCall
    /\ ui = IdleUi

\* one DescribeDisks page request of list_disks_for_instance
PgDisksPage ==
    /\ pg.fn = "disks" /\ ~pg.st.done
    /\ pg' = [pg EXCEPT !.st = ListDisksStep(pg.st, PgItems(pg.n))]
    /\ UNCHANGED <<mainVars, fb, call, ui>>

\* one DescribeSnapshots page request of snapshot_summary_for_instance
PgSnapsPage ==
    /\ pg.fn = "snaps" /\ ~pg.st.done
    /\ pg' = [pg EXCEPT !.st = SnapshotStep(pg.st, PgItems(pg.n))]
    /\ UNCHANGED <<mainVars, fb, call, ui>>

NextPaging == PgDisksPage \/ PgSnapsPage

SpecPaging == InitPaging /\ [][NextPaging]_vars

-----------------------------------------------------------------------------
(* format_bytes on its own *)

\* byte counts m * 1024^e around the unit steps, with the examples 0, 1,
\* 1536 and the ties 1152 (1.125) and 1408 (1.375)
Mantissas ==
    {c + d : c \in {0, KIB, 1152, 1408, 1536, KIB * KIB}, d \in (-MaxDelta)..MaxDelta}
        \cap Nat

FbInputs ==
    {[kind |-> "num", neg |-> s, m |-> m, e |-> e] :
        s \in BOOLEAN, m \in {x \in Mantissas : x < 2 * KIB}, e \in 0..6}
    \cup {[kind |-> "num", neg |-> FALSE, m |-> m, e |-> e] :
            m \in Mantissas, e \in 0..5}
    \cup {[kind |-> "text", neg |-> FALSE, m |-> 0, e |-> 0]}

InitFmt ==
    /\ IdleMain
    /\ pg = IdlePg
    /\ fb \in {[b |-> x, out |-> ZeroB, called |-> FALSE] : x \in FbInputs}
    /\ call = IdleCall
    /\ ui = IdleUi

\* a call format_bytes(fb.b)
FormatCall ==
    /\ ~fb.called
    /\ fb' = [fb EXCEPT !.out = format_bytes(fb.b), !.called = TRUE]
    /\ UNCHANGED <<mainVars, pg, call, ui>>

NextFmt == FormatCall

SpecFmt == InitFmt /\ [][NextFmt]_vars

-----------------------------------------------------------------------------
(* parse_timestamp and safe_date on their own *)

\* instants, in whole seconds since the epoch: the first days of 1970, the
\* seconds around 10^9 (whose milliseconds are around 10^12), and 2024
Instants ==
    {0, 1, 86400, 253402299, 1704067200, 1704067200 + 86399}
        \cup {1000000000 + d : d \in (-MaxDelta)..MaxDelta}

\* the forms an instant t is handed over in
Forms == {"ms", "ms_str", "s", "s_str", "iso_z", "iso_naive", "iso_space", "iso_local"}

\* "YYYY-MM-DD" of instant t, not spelled out
DateOf(t) == "date of " \o ToString(t - (t % 86400))

FormOf(t, form) ==
    CASE form = "ms" -> IntTime(BigMul1000(t), FALSE)
      [] form = "ms_str" -> IntTime(BigMul1000(t), TRUE)
      [] form = "s" -> IntTime(BigOf(t), FALSE)
      [] form = "s_str" -> IntTime(BigOf(t), TRUE)
      [] form = "iso_z" -> IsoString(DateOf(t), "T", BigOf(t), "Z")
      [] form = "iso_naive" -> IsoString(DateOf(t), "T", BigOf(t), "")
      [] form = "iso_space" -> IsoString(DateOf(t), " ", BigOf(t), "")
      [] form = "iso_local" ->
             IsoString(DateOf(t + 3 * 3600), "T", BigOf(t + 3 * 3600), "+03:00")

\* texts that are no timestamp: "n/a", " pending ", "not-a-date-at-all", "TBD"
Texts ==
    {<<"n", "/", "a">>,
     <<" ", "p", "e", "n", "d", "i", "n", "g", " ">>,
     <<"n", "o", "t", "-", "a", "-", "d", "a", "t", "e", "-", "a", "t", "-", "a", "l", "l">>,
     <<"T", "B", "D">>}

TimeInputs ==
    {[t |-> t, form |-> f, ts |-> FormOf(t, f)] : t \in Instants, f \in Forms}
        \cup {[t |-> 0, form |-> "text", ts |-> TextTime(c)] : c \in Texts}
        \cup {[t |-> 0, form |-> "none", ts |-> NoTime]}

InitTime ==
    /\ IdleMain
    /\ pg = IdlePg
    /\ fb = IdleFb
    /\ ui = IdleUi
    /\ call \in {[fn |-> f, called |-> FALSE, t |-> x.t, form |-> x.form,
                  ts |-> x.ts, out |-> ""] :
                     f \in {"parse_timestamp", "safe_date"}, x \in TimeInputs}

\* a call parse_timestamp(call.ts)
ParseTimestampCall ==
    /\ call.fn = "parse_timestamp" /\ ~call.called
    /\ call' = [call EXCEPT !.out = parse_timestamp(call.ts), !.called = TRUE]
    /\ UNCHANGED <<mainVars, pg, fb, ui>>

\* a call safe_date(call.ts)
SafeDateCall ==
    /\ call.fn = "safe_date" /\ ~call.called
    /\ call' = [call EXCEPT !.out = safe_date(call.ts), !.called = TRUE]
    /\ UNCHANGED <<mainVars, pg, fb, ui>>

NextTime == ParseTimestampCall \/ SafeDateCall

SpecTime == InitTime /\ [][NextTime]_vars

-----------------------------------------------------------------------------
(* _safe_join on its own *)

\* the lists _safe_join is called with: None, and every list of up to
\* MaxLen values out of "a", "b", "" and None
JoinInputs ==
    {[none |-> TRUE, vals |-> <<>>]}
        \cup {[none |-> FALSE, vals |-> v] :
                  v \in UNION {[1..n -> {"a", "b", "", NONE}] : n \in 0..MaxLen}}

InitJoin ==
    /\ IdleMain
    /\ pg = IdlePg
    /\ fb = IdleFb
    /\ ui = IdleUi
    /\ call \in {[fn |-> "_safe_join", called |-> FALSE, none |-> v.none,
                  vals |-> v.vals, out |-> ""] : v \in JoinInputs}

\* a call _safe_join(call.vals); "vals or []" and "if not vals" read None
\* as the empty list
SafeJoinCall ==
    /\ call.fn = "_safe_join" /\ ~call.called
    /\ call' = [call EXCEPT !.out = _safe_join(IF call.none THEN <<>> ELSE call.vals),
                            !.called = TRUE]
    /\ UNCHANGED <<mainVars, pg, fb, ui>>

NextJoin == SafeJoinCall

SpecJoin == InitJoin /\ [][NextJoin]_vars

-----------------------------------------------------------------------------
(* The filter script of the HTML reports, run in a browser on a written table *)

\* a <td> holding plain text, and one holding _ecs_link's <a data-value=...>
TextCell(chars) == [text |-> chars, link |-> FALSE, value |-> <<>>]
LinkCell(chars) == [text |-> chars, link |-> TRUE, value |-> chars]

\* the <tbody> of a report: name, id and state of five resources, two of
\* them named by their owner "ALL" and "__BLANK__"; the ECS reports render
\* the id as a hyperlink
TableOf(report) ==
    LET id(chars) == IF report \in {"ecs", "uecs"} THEN LinkCell(chars)
                     ELSE TextCell(chars)
    IN  <<<<TextCell(<<"W", "e", "b">>), id(<<"i", "1">>), TextCell(<<"O", "n">>)>>,
          <<TextCell(<<>>), id(<<"i", "2">>), TextCell(<<"O", "f", "f">>)>>,
          <<TextCell(<<" ", "o", "n", " ">>), id(<<"i", "3">>), TextCell(<<"O", "n">>)>>,
          <<TextCell(<<"A", "L", "L">>), id(<<"i", "4">>), TextCell(<<"O", "f", "f">>)>>,
          <<TextCell(<<"_", "_", "B", "L", "A", "N", "K", "_", "_">>), id(<<"i", "5">>),
            TextCell(<<"O", "n">>)>>>>

FilterRows == 1..5
FilterCols == 1..3

\* what a user types into a free-text input
Terms == {<<>>, <<"O", "N">>, <<"i", "2">>, <<"f", "i">>, <<"x">>}

\* String.toLowerCase over the letters of this model
LowerChars(chars) ==
    [j \in DOMAIN chars |->
        CASE chars[j] = "W" -> "w"
          [] chars[j] = "O" -> "o"
          [] chars[j] = "N" -> "n"
          [] chars[j] = "A" -> "a"
          [] chars[j] = "L" -> "l"
          [] chars[j] = "B" -> "b"
          [] chars[j] = "K" -> "k"
          [] OTHER -> chars[j]]

\* String.includes
Contains(hay, needle) ==
    \E j \in 0..(Len(hay) - Len(needle)) : SubSeq(hay, j + 1, j + Len(needle)) = needle

\* r.textContent: the text of the cells of row r, one after the other
RowText(report, r) ==
    LET row == TableOf(report)[r]
    IN  row[1].text \o row[2].text \o row[3].text

\* cellText of alibaba-ecs-inventory.py and getV of the updated script: the
\* link's data-value when the cell holds one, else the text, trimmed
cellText(cell) ==
    IF cell.link THEN Concat(Strip(cell.value)) ELSE Concat(Strip(cell.text))

\* cells[col].textContent.trim() of the RAM script
TrimmedText(cell) == Concat(Strip(cell.text))

\* the distinct values populateFilters collects for a column
ColValues(report, col) == {cellText(TableOf(report)[r][col]) : r \in FilterRows}

\* the option values of a column's select after the page loaded
OptionsOf(report, col) ==
    CASE report = "ecs" ->
             {"__ALL__"} \cup {IF v = "" THEN "__BLANK__" ELSE v : v \in ColValues(report, col)}
      [] report = "uecs" -> {"ALL"} \cup (ColValues(report, col) \ {""})
      [] report = "ram" -> {""} \cup (ColValues(report, col) \ {""})
      [] report = "oss" -> {""} \cup (ColValues(report, col) \ {""})

\* the value of the first option of every select
AllOption(report) ==
    CASE report = "ecs" -> "__ALL__"
      [] report = "uecs" -> "ALL"
      [] report = "ram" -> ""
      [] report = "oss" -> ""

\* the values of the "(blank)" option: alibaba-ecs-inventory.py alone builds
\* one, the other pages leave the empty value out of their options
BlankOptions(report) == IF report = "ecs" THEN {"__BLANK__"} ELSE {}

\* the OSS report's SELECT_COLS get a select, every other column a text input
OssSelectCols == {3}

\* applyFilters of alibaba-ecs-inventory.py, for one row: the search term
\* first, then the selects in column order, returning at the first mismatch
RECURSIVE EcsSelectsPass(_, _, _)
EcsSelectsPass(r, i, sels) ==
    IF i > Len(sels) THEN TRUE
    ELSE LET want == IF sels[i] = "" THEN "__ALL__" ELSE sels[i]
             got == cellText(TableOf("ecs")[r][i])
         IN  IF want = "__ALL__" THEN EcsSelectsPass(r, i + 1, sels)
             ELSE IF want = "__BLANK__"
                  THEN IF got # "" THEN FALSE ELSE EcsSelectsPass(r, i + 1, sels)
                  ELSE IF got # want THEN FALSE ELSE EcsSelectsPass(r, i + 1, sels)

applyFilters(u) ==
    LET q == LowerChars(u.q)
        shown(r) ==
            LET rowText == LowerChars(RowText("ecs", r))
            IN  IF q # <<>> /\ ~Contains(rowText, q) THEN FALSE
                ELSE EcsSelectsPass(r, 1, u.sels)
    IN  [u EXCEPT !.visible = [r \in FilterRows |-> shown(r)]]

\* update of update-alibaba-ecs-inventory.py, for one row
RECURSIVE UecsSelectsPass(_, _, _, _)
UecsSelectsPass(r, i, sels, s) ==
    IF i > Len(sels) THEN s
    ELSE IF ~s \/ sels[i] = "ALL" THEN UecsSelectsPass(r, i + 1, sels, s)
    ELSE UecsSelectsPass(r, i + 1, sels,
                         IF cellText(TableOf("uecs")[r][i]) # sels[i] THEN FALSE ELSE s)

update(u) ==
    LET q == LowerChars(u.q)
        shown(r) ==
            UecsSelectsPass(r, 1, u.sels,
                            q = <<>> \/ Contains(LowerChars(RowText("uecs", r)), q))
    IN  [u EXCEPT !.visible = [r \in FilterRows |-> shown(r)]]

\* filterTable of alibaba-ram-inventory.py: the selects only; the page has
\* no free-text input
filterTable(u) ==
    LET match(r) ==
            \A i \in DOMAIN u.sels :
                ~(u.sels[i] # "" /\ TrimmedText(TableOf("ram")[r][i]) # u.sels[i])
    IN  [u EXCEPT !.visible = [r \in FilterRows |-> match(r)]]

\* table.column(i).search(...).draw() of oss-inventory.py: DataTables keeps
\* one search per column and shows the rows that pass all of them; a select
\* searches its column for '^value$', a text input searches its own column
\* for the typed text, both without regard to case
OssDraw(u) ==
    LET cellOf(r, i) == LowerChars(Strip(TableOf("oss")[r][i].text))
        pass(r, i) ==
            IF i \in OssSelectCols
            THEN u.sels[i] = "" \/ Concat(cellOf(r, i)) = Concat(LowerChars(Strip(u.selChars[i])))
            ELSE Contains(cellOf(r, i), LowerChars(u.colq[i]))
    IN  [u EXCEPT !.visible = [r \in FilterRows |-> \A i \in FilterCols : pass(r, i)]]

\* the handler the page binds to its controls
RunFilter(u) ==
    CASE u.report = "ecs" -> applyFilters(u)
      [] u.report = "uecs" -> update(u)
      [] u.report = "ram" -> filterTable(u)
      [] u.report = "oss" -> OssDraw(u)

\* a report has just been opened: every row shows, every control is at rest
InitFilter ==
    /\ IdleMain
    /\ pg = IdlePg
    /\ fb = IdleFb
    /\ call = IdleCall
    /\ ui \in {[open |-> TRUE, report |-> rep, q |-> <<>>,
                colq |-> [i \in FilterCols |-> <<>>],
                sels |-> [i \in FilterCols |-> AllOption(rep)],
                selChars |-> [i \in FilterCols |-> <<>>],
                visible |-> [r \in FilterRows |-> TRUE],
                changed |-> FALSE] : rep \in Scripts}

\* the user types into the page's one search box (#q): the ECS reports
TypeSearch ==
    /\ ui.open /\ ui.report \in {"ecs", "uecs"}
    /\ \E term \in Terms :
          ui' = RunFilter([ui EXCEPT !.q = term, !.changed = TRUE])
    /\ UNCHANGED <<mainVars, pg, fb, call>>

\* the user types into the text input above a column: the OSS report
TypeColumnSearch ==
    /\ ui.open /\ ui.report = "oss"
    /\ \E i \in FilterCols \ OssSelectCols, term \in Terms :
          ui' = RunFilter([ui EXCEPT !.colq[i] = term, !.changed = TRUE])
    /\ UNCHANGED <<mainVars, pg, fb, call>>

\* the user picks an option of a column's select
PickOption ==
    /\ ui.open
    /\ \E i \in FilterCols :
          /\ ui.report = "oss" => i \in OssSelectCols
          /\ \E r \in FilterRows \cup {0} :
                LET chars == IF r = 0 THEN <<>>
                             ELSE LET cell == TableOf(ui.report)[r][i]
                                  IN  Strip(IF cell.link THEN cell.value ELSE cell.text)
                    v == IF r = 0 THEN AllOption(ui.report)
                         ELSE IF chars = <<>> THEN "__BLANK__" ELSE Concat(chars)
                IN  /\ r # 0 /\ chars = <<>> => v \in BlankOptions(ui.report)
                    /\ v \in OptionsOf(ui.report, i)
                    /\ ui' = RunFilter([ui EXCEPT !.sels[i] = v, !.selChars[i] = chars,
                                                  !.changed = TRUE])
    /\ UNCHANGED <<mainVars, pg, fb, call>>

NextFilter == TypeSearch \/ TypeColumnSearch \/ PickOption

SpecFilter == InitFilter /\ [][NextFilter]_vars

-----------------------------------------------------------------------------
(* _pick_from_map on its own: one call on a response map and a key list *)

\* what a key of a response map may hold: nothing (the key is absent),
\* None, the empty string or a text
PickVals == {"absent", NONE, "", "CentOS 7", "Alma 9"}

\* the shapes of the response maps: OSName at the top, InstanceAttribute
\* absent, a plain value or a nested map with an OSName of its own
PickShapes ==
    [top : PickVals, mid : PickVals \cup {"map"}, deep : PickVals]

\* the map of shape d, as _body_to_map_safe hands it over
PickMap(d) ==
    LET inner == MapNode([k \in {x \in {"OSName"} : d.deep # "absent"} |-> Leaf(d.deep)])
        present == {x \in {"OSName"} : d.top # "absent"}
                       \cup {x \in {"InstanceAttribute"} : d.mid # "absent"}
    IN  MapNode([k \in present |->
                    IF k = "OSName" THEN Leaf(d.top)
                    ELSE IF d.mid = "map" THEN inner ELSE Leaf(d.mid)])

\* the key lists handed over, each key split at its dots
PickKeyLists ==
    {<<>>,
     <<<<"OSName">>>>,
     <<<<"OSNameEn">>, <<"OSName">>, <<"InstanceAttribute", "OSName">>>>,
     <<<<"InstanceAttribute", "OSName">>, <<"OSName">>>>,
     <<<<"InstanceAttribute">>, <<"OSName">>>>,
     <<<<"OSName", "InstanceAttribute">>, <<"InstanceAttribute", "OSName", "x">>,
       <<"InstanceAttribute", "OSName">>>>}

InitPick ==
    /\ IdleMain
    /\ pg = IdlePg
    /\ fb = IdleFb
    /\ ui = IdleUi
    /\ call \in {[fn |-> "_pick_from_map", called |-> FALSE, d |-> d, keys |-> ks,
                  out |-> ""] : d \in PickShapes, ks \in PickKeyLists}

\* a call _pick_from_map(m, keys)
PickCall ==
    /\ call.fn = "_pick_from_map" /\ ~call.called
    /\ call' = [call EXCEPT !.out = _pick_from_map(PickMap(call.d), call.keys),
                            !.called = TRUE]
    /\ UNCHANGED <<mainVars, pg, fb, ui>>

NextPick == PickCall

SpecPick == InitPick /\ [][NextPick]_vars

-----------------------------------------------------------------------------
(* get_os_image_best_effort on its own: one call on a listed instance *)

\* the fields of a listed instance the function reads
AttrInstances ==
    [os_name_en : {NONE, "Alma 9"}, os_name : {NONE, ""},
     osname : {NONE, "Ubuntu 22.04"}, image_id : {NONE, "", "img-1"},
     instance_id : {NONE, "", "i-1"}]

\* the bodies DescribeInstanceAttribute answers with: typed fields set or
\* not, the values in the body's map at the top, nested, or nowhere
AttrBodies ==
    [os_name_en : {NONE}, os_name : {NONE, "CentOS 7"}, image_id : {NONE, "img-typed"},
     map : {MapNode(<<>>),
            MapNode([OSName |-> Leaf("CentOS 8"), ImageId |-> Leaf("img-top")]),
            MapNode([OSName |-> Leaf(""),
                     InstanceAttribute |-> MapNode([OSName |-> Leaf("CentOS 9"),
                                                    ImageId |-> Leaf("img-attr")])])}]

InitAttr ==
    /\ IdleMain
    /\ pg = IdlePg
    /\ fb = IdleFb
    /\ ui = IdleUi
    /\ call \in {[fn |-> "get_os_image_best_effort", called |-> FALSE, ins |-> ins,
                  body |-> body, raises |-> raises, printed |-> printed,
                  os_name |-> "", image_id |-> "", events |-> <<>>] :
                     ins \in AttrInstances, body \in AttrBodies,
                     raises \in BOOLEAN, printed \in BOOLEAN}

\* a call get_os_image_best_effort(ecs, ins): its result and, in order,
\* the request, the warning and the sleep it makes
OsImageCall ==
    /\ call.fn = "get_os_image_best_effort" /\ ~call.called
    /\ LET f == get_os_image_best_effort(call.ins, call.body, call.raises)
       IN  call' = [call EXCEPT !.os_name = f.os_name, !.image_id = f.image_id,
                                !.events = AttrTrace(f.attempted, call.raises, call.printed),
                                !.called = TRUE]
    /\ UNCHANGED <<mainVars, pg, fb, ui>>

NextAttr == OsImageCall

SpecAttr == InitAttr /\ [][NextAttr]_vars

-----------------------------------------------------------------------------
(* The disk sums on their own: disk_summary and the loop of the updated    *)
(* script on a list of disks                                                *)

\* the j-th disk of a listing: a size in GB, a type as the provider spells
\* it, an id or none
DiskAt(j) ==
    [disk_id : {NONE, "d-" \o ToString(j)}, size : {0, 20},
     type : {NONE, "system", "Data", "cloud"}, category : {"cloud_essd"}]

RECURSIVE DiskLists(_)
DiskLists(n) ==
    IF n = 0 THEN {<<>>}
    ELSE DiskLists(n - 1)
             \cup {Append(l, d) : l \in {x \in DiskLists(n - 1) : Len(x) = n - 1},
                                  d \in DiskAt(n)}

InitDisks ==
    /\ IdleMain
    /\ pg = IdlePg
    /\ fb = IdleFb
    /\ ui = IdleUi
    /\ call \in {[fn |-> fn, called |-> FALSE, disks |-> l, total |-> 0, system |-> 0,
                  data |-> 0, disk_ids |-> <<>>] :
                     fn \in {"disk_summary", "uecs_disks"}, l \in DiskLists(MaxDisks)}

\* a call disk_summary(disks) of alibaba-ecs-inventory.py
DiskSummaryCall ==
    /\ call.fn = "disk_summary" /\ ~call.called
    /\ LET f == disk_summary(call.disks)
       IN  call' = [call EXCEPT !.total = f.total, !.system = f.system, !.data = f.data,
                                !.disk_ids = f.disk_ids, !.called = TRUE]
    /\ UNCHANGED <<mainVars, pg, fb, ui>>

\* the disk loop of update-alibaba-ecs-inventory.py over the same list
UecsDisksCall ==
    /\ call.fn = "uecs_disks" /\ ~call.called
    /\ LET f == UecsDiskSums(call.disks)
       IN  call' = [call EXCEPT !.total = f.d_tot, !.system = f.d_sys, !.data = f.d_dat,
                                !.disk_ids = f.d_ids, !.called = TRUE]
    /\ UNCHANGED <<mainVars, pg, fb, ui>>

NextDisks == DiskSummaryCall \/ UecsDisksCall

SpecDisks == InitDisks /\ [][NextDisks]_vars

-----------------------------------------------------------------------------
(* The snapshot summaries on their own: the provider holds pg.n snapshots   *)
(* of an instance, in one of the orders it may list them                    *)

\* the creation time of the provider's snapshot s: the first is the
\* latest, some have none, some share one; none at all when ~timed
SnapTime(s, timed) == IF ~timed THEN 0 ELSE IF s = 1 THEN 9 ELSE (s * 7) % 9

\* the n snapshots as listed: the provider's order turned by rot places
SnapItems(n, rot, timed) ==
    [j \in 1..n |->
        LET s == ((j - 1 + rot) % n) + 1
        IN  [id |-> s, creation_time |-> SnapTime(s, timed)]]

InitSnaps ==
    /\ IdleMain
    /\ pg \in {[fn |-> f, n |-> n, rot |-> rot, timed |-> timed, st |-> PagingStart] :
                  f \in {"snaps", "uecs_snaps"}, n \in 0..MaxItems,
                  rot \in 0..MaxItems, timed \in BOOLEAN}
    /\ pg.rot < pg.n \/ pg.rot = 0
    /\ fb = IdleFb
    /\ call = IdleCall
    /\ ui = IdleUi

\* one pass of the while loop of snapshot_summary_for_instance
SnapsPage ==
    /\ pg.fn = "snaps" /\ ~pg.st.done
    /\ pg' = [pg EXCEPT !.st = SnapshotStep(pg.st, SnapItems(pg.n, pg.rot, pg.timed))]
    /\ UNCHANGED <<mainVars, fb, call, ui>>

\* the DescribeSnapshots request of update-alibaba-ecs-inventory.py: no page
\* parameters, answered with the provider's first page
UecsSnaps ==
    /\ pg.fn = "uecs_snaps" /\ ~pg.st.done
    /\ LET snaps == PageOf(SnapItems(pg.n, pg.rot, pg.timed), 1, PageSize).items
           f == UecsSnapSummary(snaps)
       IN  pg' = [pg EXCEPT !.st.count = f.snap_count, !.st.latest = f.latest,
                            !.st.reqs = <<1>>, !.st.done = TRUE]
    /\ UNCHANGED <<mainVars, fb, call, ui>>

NextSnaps == SnapsPage \/ UecsSnaps

SpecSnaps == InitSnaps /\ [][NextSnaps]_vars

-----------------------------------------------------------------------------
(* The access-key fields of a RAM user record on their own *)

\* what is told of a key: active or not, the day of January 2024 it was
\* created, used since or not
KeyShapes == [active : BOOLEAN, day : 1..3, used : BOOLEAN]

RECURSIVE KeyShapeLists(_)
KeyShapeLists(n) ==
    IF n = 0 THEN {<<>>}
    ELSE KeyShapeLists(n - 1)
             \cup {Append(l, d) : l \in {x \in KeyShapeLists(n - 1) : Len(x) = n - 1},
                                  d \in KeyShapes}

\* the AccessKey list of the ListAccessKeys answer
KeysOf(shapes) ==
    [j \in DOMAIN shapes |->
        [AccessKeyId |-> "ak-" \o ToString(j),
         Status |-> IF shapes[j].active THEN "Active" ELSE "Inactive",
         CreateDate |-> DayTime(shapes[j].day),
         LastUsedDate |-> IF shapes[j].used THEN DayTime(9) ELSE NoTime]]

\* ims_map.get(u_id, {}) for a user IMS does not list, lists without a
\* UserPrincipalName, or lists with one
ImsEntry(ims) ==
    CASE ims = "absent" -> NoImsUser
      [] ims = "no_upn" -> ImsUser(1, 2)
      [] ims = "upn" -> ImsUser(1, 1)

InitKeys ==
    /\ IdleMain
    /\ pg = IdlePg
    /\ fb = IdleFb
    /\ ui = IdleUi
    /\ call \in {[fn |-> "access_keys", called |-> FALSE, ims |-> ims, keys |-> l,
                  lu_raises |-> lu, ak_status |-> "", ak_gen_date |-> "",
                  ak_last_used |-> ""] :
                     ims \in {"absent", "no_upn", "upn"}, l \in KeyShapeLists(MaxKeys),
                     lu \in {{}, {1}}}

\* the access-key part of one pass of "for u in ..."
AccessKeysCall ==
    /\ call.fn = "access_keys" /\ ~call.called
    /\ LET f == AccessKeyFields(ImsEntry(call.ims), KeysOf(call.keys), call.lu_raises)
       IN  call' = [call EXCEPT !.ak_status = f.ak_status, !.ak_gen_date = f.ak_gen_date,
                                !.ak_last_used = f.ak_last_used, !.called = TRUE]
    /\ UNCHANGED <<mainVars, pg, fb, ui>>

NextKeys == AccessKeysCall

SpecKeys == InitKeys /\ [][NextKeys]_vars

-----------------------------------------------------------------------------
(* Properties of the scripts *)

\* the resource id cell of a record
RowId(row) ==
    CASE script = "ecs" -> row[3]
      [] script = "uecs" -> row[2]
      [] script = "oss" -> row[1]
      [] script = "ram" -> row[2]

\* the HTML cell that shows resource id
HtmlIdCell(id) ==
    CASE script = "ecs" -> ecs_link(id)
      [] script = "uecs" -> uecs_link(id)
      [] script = "oss" -> id
      [] script = "ram" -> Escape(Str(id))

\* the fixed header list of the running script's report
HeaderOf ==
    CASE script = "ecs" -> HEADERS
      [] script = "uecs" -> heads
      [] script = "oss" -> OssColumns
      [] script = "ram" -> ram_headers

\* the base name of the running script's output files
BaseOf ==
    CASE script = "ecs" -> EcsBase
      [] script = "uecs" -> UecsBase
      [] script = "oss" -> OssBase
      [] script = "ram" -> RamBase

\* the record of resource i in a run where no lookup raises
CleanCsvRow(i) ==
    CASE script = "ecs" -> EcsCsvRow(EcsFields(i, kinds[i], FALSE, FALSE, FALSE))
      [] script = "uecs" -> UecsCsvRow(UecsFields(i, kinds[i], FALSE, FALSE))
      [] script = "oss" -> OssRow(Bucket(i, kinds[i]), FALSE, FALSE, FALSE, FALSE)
      [] script = "ram" ->
            RamRow(RamFields(i, kinds[i],
                             IF i \in ims_map THEN ImsUser(i, kinds[i]) ELSE NoImsUser,
                             FALSE, {}))

NoOutputFile == \A f \in DOMAIN files : ~files[f].exists

\* C1: enrichment resilience.  In every script, a secondary lookup that
\* raises does not abort the run, every resource the loop has iterated
\* over has its record, in order, and the record of a resource none of
\* whose lookups raised is the record of a run without failures.
C1_EnrichmentResilience ==
    /\ pc # "aborted-lookup"
    /\ Len(rows_csv) = Len(faults)
    /\ \A j \in DOMAIN faults :
          /\ RowId(rows_csv[j]) = ResName(faults[j].res)
          /\ faults[j].raised = {} => rows_csv[j] = CleanCsvRow(faults[j].res)

\* C2: fatal tier.  Once setting up the client or a request of the
\* top-level listing loop has raised, the run is aborted at that step, the
\* error has been printed and neither output file exists, whatever records
\* earlier pages had accumulated.
C2_FatalTier ==
    fatal => /\ pc \in {"aborted-connect", "aborted-listing"}
             /\ errPrinted
             /\ NoOutputFile

\* C2 witness: a listing request raised after a full page of records
C2_Witness ==
    /\ fatal
    /\ pc = "aborted-listing"
    /\ Len(rows_csv) >= PageSize

\* C3: listing completeness.  When the listing loop has ended normally,
\* every resource the provider holds has been processed exactly once (the
\* IMS users too), and the disk total and snapshot count of an instance
\* whose lookups did not raise cover all its disks and snapshots.
C3_ListingComplete ==
    pc \in {"render", "write2", "done"} =>
        /\ [j \in DOMAIN faults |-> faults[j].res] = AllRes
        /\ script = "ram" => ims_map = 1..nres
        /\ \A j \in DOMAIN faults :
              LET k == kinds[faults[j].res]
                  all == SumSeq([d \in DOMAIN DisksOf(k) |-> DisksOf(k)[d].size])
              IN  /\ script = "ecs" /\ faults[j].raised = {} =>
                        /\ rows_csv[j][14] = all
                        /\ rows_csv[j][19] = StrInt(Len(SnapsOf(k)))
                  /\ script = "uecs" /\ faults[j].raised = {} =>
                        /\ rows_csv[j][7] = all
                        /\ rows_csv[j][11] = Len(SnapsOf(k))

\* the number of page requests for n items: max(1, ceil(n / SUB_PAGE_SIZE))
PagesFor(n) == IF n = 0 THEN 1 ELSE (n + SUB_PAGE_SIZE - 1) \div SUB_PAGE_SIZE

\* C4: pagination count.  For a provider holding n items, the disk and the
\* snapshot listing request the pages 1, 2, ... in increasing order, never
\* more than max(1, ceil(n/50)) of them, and when the loop has ended they
\* have issued exactly that many requests and aggregated all n items.
C4_PaginationCount ==
    /\ pg.st.reqs = [j \in 1..Len(pg.st.reqs) |-> j]
    /\ Len(pg.st.reqs) <= PagesFor(pg.n)
    /\ pg.st.done =>
          /\ Len(pg.st.reqs) = PagesFor(pg.n)
          /\ pg.fn = "disks" => pg.st.disks = PgItems(pg.n)
          /\ pg.fn = "snaps" =>
                /\ pg.st.count = pg.n
                /\ \A j \in 1..pg.n : PgItems(pg.n)[j].creation_time <= pg.st.latest

\* C4 witness: 125 disks, listed with exactly 3 requests
C4_Witness ==
    /\ pg.fn = "disks" /\ pg.st.done
    /\ pg.n = 125
    /\ pg.st.reqs = <<1, 2, 3>>
    /\ Len(pg.st.disks) = 125

\* C5: the records in memory each have as many cells as the header list of
\* the report, and once both files are written the CSV and the HTML table
\* hold the same number of rows, for the same resources in the same order,
\* under the same columns in the same order, every row as wide as the
\* header.
C5_SameRowsAndColumns ==
    /\ \A r \in DOMAIN rows_csv : Len(rows_csv[r]) = Len(HeaderOf)
    /\ \A r \in DOMAIN rows_html : Len(rows_html[r]) = Len(HeaderOf)
    /\ files["csv"].complete /\ files["html"].complete =>
          LET csv == files["csv"]
              htm == files["html"]
          IN  /\ csv.header = HeaderOf
              /\ htm.header = [j \in DOMAIN HeaderOf |-> Escape(HeaderOf[j])]
              /\ htm.header = csv.header
              /\ Len(csv.rows) = Len(htm.rows)
              /\ \A r \in DOMAIN csv.rows :
                    /\ Len(csv.rows[r]) = Len(csv.header)
                    /\ Len(htm.rows[r]) = Len(htm.header)
                    /\ htm.rows[r][IF script = "oss" THEN 1
                                   ELSE IF script = "ecs" THEN 3 ELSE 2]
                           = HtmlIdCell(RowId(csv.rows[r]))

\* C5 witness: both files written, with as many rows as the provider has
\* resources
C5_Witness ==
    /\ pc = "done"
    /\ files["csv"].complete /\ files["html"].complete
    /\ Len(files["csv"].rows) = MaxRes
    /\ Len(files["html"].rows) = MaxRes

\* the stored size of the bucket a record is about
RecordBytes(row) ==
    LET i == CHOOSE j \in 1..nres : ResName(j) = row[1]
    IN  Bucket(i, kinds[i]).storage_size_in_bytes

\* C6: aggregate correctness.  The running totals equal the sums of the
\* corresponding fields over the records emitted so far (OSS: stored bytes
\* and objects; updated ECS: vCPU and disk total), and the summary written
\* into the HTML report shows those sums and the number of rows.
C6_Aggregates ==
    /\ script = "oss" =>
          /\ sums.bytes = SumSeq([r \in DOMAIN rows_csv |-> RecordBytes(rows_csv[r])])
          /\ sums.objects = SumSeq([r \in DOMAIN rows_csv |-> rows_csv[r][5]])
          /\ files["html"].complete =>
                LET s == files["html"].summary
                    rows == files["html"].rows
                IN  /\ s.count = Len(rows)
                    /\ s.objects = SumSeq([r \in DOMAIN rows |-> rows[r][5]])
                    /\ s.capacity = BytesText(format_bytes(Bytes(
                           SumSeq([r \in DOMAIN rows |-> RecordBytes(rows[r])]))))
    /\ script = "uecs" =>
          /\ sums.vcpu = SumSeq([r \in DOMAIN rows_csv |-> rows_csv[r][4]])
          /\ sums.disk = SumSeq([r \in DOMAIN rows_csv |-> rows_csv[r][7]])
          /\ files["html"].complete =>
                LET s == files["html"].summary
                    rows == files["html"].rows
                IN  /\ s.count = Len(rows)
                    /\ s.vcpu = SumSeq([r \in DOMAIN rows |-> rows[r][4]])
                    /\ s.disk = SumSeq([r \in DOMAIN rows |-> rows[r][7]])

\* C6 witness: a finished updated-ECS run in which one instance's disk
\* lookup raised (a record with zero disk total) and another's did not
C6_Witness ==
    /\ script = "uecs" /\ pc = "done"
    /\ \E j \in DOMAIN faults : "DescribeDisks" \in faults[j].raised
    /\ sums.disk > 0

\* C7: a run that ends without a fatal error has written exactly two
\* files, <base>.csv and <base>.html.
C7_TwoFiles ==
    pc = "done" =>
        /\ files["csv"].complete /\ files["csv"].name = BaseOf \o ".csv"
        /\ files["html"].complete /\ files["html"].name = BaseOf \o ".html"

\* C8: after a run that ended abnormally, at whatever step, no output file
\* exists.
C8_NoPartialOutput == pc \in AbortedPcs => NoOutputFile

\* the operations that only read provider state
ReadOnlyOps ==
    {"DescribeInstances", "DescribeInstanceAttribute", "DescribeDisks",
     "DescribeSnapshots", "ListBuckets", "GetBucketInfo", "GetBucketStat",
     "GetBucketVersioning", "GetBucketTransferAcceleration", "GetBucketLogging",
     "HEAD", "ims:ListUsers", "ram:ListUsers", "ListPoliciesForUser",
     "ListGroupsForUser", "ListAccessKeys", "GetAccessKeyLastUsed"}

\* C9: read-only.  Every request a run has sent to the provider is a
\* list, describe or get operation or the HTTP HEAD probe.
C9_ReadOnly == requests \subseteq ReadOnlyOps

\* C9 witness: a finished OSS run that queried the logging configuration
\* and probed the endpoint
C9_Witness ==
    /\ script = "oss" /\ pc = "done"
    /\ {"ListBuckets", "GetBucketLogging", "HEAD"} \subseteq requests

\* the display string of instant t, counted independently of the
\* representation parse_timestamp works on
DisplayOf(t) == "UTC+3 " \o ToString(t + 3 * 3600)

InstantForms == {"ms", "s", "iso_z", "iso_naive", "iso_space", "iso_local"}

\* C11 as written: for every instant, parse_timestamp given its
\* epoch-milliseconds integer, its epoch-seconds integer or an equivalent
\* ISO-8601 string returns the same UTC+3 display string, that of the
\* instant.
C11_AnyInstant ==
    call.fn = "parse_timestamp" /\ call.called /\ call.form \in InstantForms =>
        call.out = DisplayOf(call.t)

\* C11 amended: for every whole-second instant later than 10^9 seconds
\* after the epoch (its milliseconds exceed 10^12), parse_timestamp given
\* the epoch-milliseconds integer, the epoch-seconds integer or an
\* equivalent ISO-8601 string (a string without zone suffix counting as
\* UTC) returns the same UTC+3 display string, that of the instant; an
\* all-digit input above 10^12 is read as milliseconds, any other as
\* seconds.
C11_TimestampForms ==
    call.fn = "parse_timestamp" /\ call.called =>
        /\ call.form \in InstantForms /\ call.t > 1000000000 =>
              call.out = DisplayOf(call.t)
        /\ call.form \in {"s", "s_str"} /\ call.t > 0 => call.out = DisplayOf(call.t)
        /\ call.form \in {"ms", "ms_str"} /\ call.t > 0 /\ call.t <= 1000000000 =>
              call.out # DisplayOf(call.t)

\* C11 witness: the milliseconds of an instant of 2024 were parsed to the
\* display string of that instant
C11_Witness ==
    /\ call.fn = "parse_timestamp" /\ call.called
    /\ call.form = "ms" /\ call.t = 1704067200
    /\ call.out = "UTC+3 1704078000"

\* C12: the timestamp normalizers return a string for every input, and
\* for an input that is no timestamp the string is the input text (as
\* given, or stripped of surrounding blanks) cut to 10 characters.
C12_PassThroughTruncated ==
    call.fn \in {"parse_timestamp", "safe_date"} /\ call.called =>
        /\ call.out \in STRING
        /\ call.form = "text" =>
              \/ call.out = Concat(First10(call.ts.chars))
              \/ call.out = Concat(First10(Strip(call.ts.chars)))

\* the values a deduplicating join keeps: the non-empty, non-None elements
\* of vals at the positions of their first occurrence, in order
FirstSeen(vals) ==
    LET P == {j \in DOMAIN vals :
                 /\ vals[j] # "" /\ vals[j] # NONE
                 /\ \A l \in 1..(j - 1) : vals[l] # vals[j]}
        nth(i) == CHOOSE j \in P : Cardinality({l \in P : l < j}) = i - 1
    IN  [i \in 1..Cardinality(P) |-> vals[nth(i)]]

\* the elements of parts separated by "; "
RECURSIVE Semicolons(_)
Semicolons(parts) ==
    IF parts = <<>> THEN ""
    ELSE IF Len(parts) = 1 THEN parts[1]
    ELSE Semicolons(SubSeq(parts, 1, Len(parts) - 1)) \o "; " \o parts[Len(parts)]

\* _safe_join alone returns the first-seen elements separated by "; ",
\* "a; b" for ["a","b","a","",None] and "" for an empty or None input
SafeJoinDedups ==
    call.fn = "_safe_join" /\ call.called =>
        /\ call.none => call.out = ""
        /\ ~call.none => call.out = Semicolons(FirstSeen(call.vals))
        /\ call.vals = <<>> => call.out = ""
        /\ call.vals = <<"a", "b", "a", "", NONE>> => call.out = "a; b"

\* C13: deduplicating join.  _safe_join returns the non-empty, non-None
\* elements, each once at the position of its first occurrence, separated
\* by "; ", and every multi-value column of every report holds that join
\* of the provider's values: security groups and disk categories of an
\* instance, direct policies and groups of a user.
C13_DedupJoin ==
    /\ SafeJoinDedups
    /\ \A j \in DOMAIN faults :
          j \in DOMAIN rows_csv /\ faults[j].raised = {} =>
             LET i == faults[j].res
                 k == kinds[i]
                 cats == [d \in DOMAIN DisksOf(k) |-> DisksOf(k)[d].category]
             IN  /\ script = "ecs" =>
                       /\ rows_csv[j][13] = Semicolons(FirstSeen(Instance(i, k).security_group_ids))
                       /\ rows_csv[j][17] = Semicolons(FirstSeen(cats))
                 /\ script = "ram" =>
                       /\ rows_csv[j][6] = Semicolons(FirstSeen(PoliciesOf(k)))
                       /\ rows_csv[j][7] = Semicolons(FirstSeen(GroupsOf(k)))

\* the resource a written CSV row is about
RowRes(row) == CHOOSE j \in 1..nres : ResName(j) = RowId(row)

\* the columns of resource i's row whose provider field is absent or null
AbsentCells(i) ==
    LET k == kinds[i]
        ims_u == IF i \in ims_map THEN ImsUser(i, k) ELSE NoImsUser
    IN  CASE script = "ecs" ->
                 {c \in {2} : Instance(i, k).instance_name = NONE}
                     \cup {c \in {25} : Instance(i, k).key_pair_name = NONE}
          [] script = "uecs" ->
                 {c \in {1} : Instance(i, k).instance_name = NONE}
          [] script = "oss" ->
                 {c \in {8} : Bucket(i, k).versioning = NONE}
                     \cup {c \in {10} : Bucket(i, k).creation_date = NoTime}
          [] script = "ram" ->
                 {c \in {3} : RamUser(i, k).DisplayName = NONE}
                     \cup {c \in {4} : ims_u.Status = NONE}
                     \cup {c \in {12} : ims_u.LastLoginDate = NoTime}

\* C14: blank normalization.  In every written report, CSV and HTML, the
\* cell of a column whose provider field is absent or null for the row's
\* resource is the empty string, never "None", "null" or another
\* placeholder.
C14_BlankCells ==
    \A kind \in {"csv", "html"} :
        files[kind].complete =>
            \A r \in DOMAIN files[kind].rows :
                r \in DOMAIN files["csv"].rows /\ files["csv"].complete =>
                    \A c \in AbsentCells(RowRes(files["csv"].rows[r])) :
                        files[kind].rows[r][c] = ""

\* the filter value of a cell: the data-value attribute when the cell
\* renders a hyperlink, else its trimmed text
FilterValue(cell) ==
    IF cell.link THEN Concat(Strip(cell.value)) ELSE Concat(Strip(cell.text))

\* what the controls of the opened report say about row r
ShouldShow(r) ==
    LET row == TableOf(ui.report)[r]
        rowText == LowerChars(RowText(ui.report, r))
    IN  /\ \A term \in {ui.q} \cup Range(ui.colq) :
              term = <<>> \/ Contains(rowText, LowerChars(term))
        /\ \A i \in FilterCols :
              ui.sels[i] # AllOption(ui.report) =>
                  IF ui.sels[i] \in BlankOptions(ui.report) THEN FilterValue(row[i]) = ""
                  ELSE FilterValue(row[i]) = ui.sels[i]

\* C15: HTML filter semantics.  After any change of a control, a row shows
\* if and only if every free-text term is empty or occurs, without regard
\* to case, in the row's full text, and every select not on "show all"
\* equals the cell's filter value (or the cell is empty for "show only
\* blank"); what shows depends on the controls' values only.
C15_FilterSemantics ==
    ui.open /\ ui.changed =>
        \A r \in FilterRows : ui.visible[r] <=> ShouldShow(r)

\* C16: CLI surface.  Every script requires --profile and takes an optional
\* --region: a run without --profile ends in an argument error before its
\* clients are built and before any provider request; a run with --profile
\* passes the command line with or without --region, and works on the
\* region given.
C16_CliSurface ==
    pc # "args" =>
        /\ ~args.has_profile => pc = "aborted-args" /\ requests = {} /\ ~fatal
        /\ args.has_profile => pc # "aborted-args"
        /\ args.has_region => RegionUsed = OtherRegion

\* the columns of the running script's report that lookup l feeds
FedBy(l) ==
    CASE script = "ecs" ->
             (CASE l = "DescribeInstanceAttribute" -> {8, 9}
                [] l = "DescribeDisks" -> 14..18
                [] l = "DescribeSnapshots" -> {19, 20})
      [] script = "uecs" ->
             (CASE l = "DescribeDisks" -> 7..10
                [] l = "DescribeSnapshots" -> {11, 12})
      [] script = "oss" ->
             (CASE l = "GetBucketInfo" -> {3, 6, 7, 10}
                [] l = "GetBucketStat" -> {4, 5}
                [] l = "GetBucketVersioning" -> {8}
                [] l = "GetBucketTransferAcceleration" -> {9}
                [] l = "GetBucketLogging" -> {12, 13}
                [] l = "HEAD" -> {14})
      [] script = "ram" ->
             (CASE l = "ListPoliciesForUser" -> {6}
                [] l = "ListGroupsForUser" -> {7}
                [] l = "ListAccessKeys" -> {9, 10, 11}
                [] OTHER -> {11})

\* C17: field-level recovery.  A resource one of whose secondary lookups
\* raised still has its record, and every column that no raising lookup
\* feeds holds what it holds in a run without the failure: the other
\* lookups were issued and their fields populated.
C17_FieldRecovery ==
    \A j \in DOMAIN faults :
        faults[j].raised # {} =>
            LET i == faults[j].res
                lost == UNION {FedBy(l) : l \in faults[j].raised}
            IN  \E r \in DOMAIN rows_csv :
                    /\ RowId(rows_csv[r]) = ResName(i)
                    /\ \A c \in DOMAIN HeaderOf \ lost :
                          rows_csv[r][c] = CleanCsvRow(i)[c]

\* the warnings printed so far
WarnCount == Cardinality({n \in DOMAIN trace : trace[n] = "warn"})

\* the passes of the instance loop whose DescribeInstanceAttribute raised
AttrFailures == {j \in DOMAIN faults : "DescribeInstanceAttribute" \in faults[j].raised}

\* C18: log once.  Over a run of alibaba-ecs-inventory.py the warning is
\* printed at most once, by the first DescribeInstanceAttribute that raises;
\* from then on _printed_attr_error stays set; and every such failure is
\* swallowed: the instance has its record, with the OS name and image id
\* of the listing (possibly empty).
C18_LogOnce ==
    script = "ecs" =>
        /\ WarnCount <= 1
        /\ AttrFailures # {} => printed_attr_error /\ WarnCount = 1
        /\ AttrFailures = {} => ~printed_attr_error /\ WarnCount = 0
        /\ pc # "aborted-lookup"
        /\ \A j \in AttrFailures :
              LET ins == Instance(faults[j].res, kinds[faults[j].res])
              IN  /\ j \in DOMAIN rows_csv
                  /\ rows_csv[j][8] = Or(ins.os_name_en, Or(ins.os_name, Or(ins.osname, "")))
                  /\ rows_csv[j][9] = Or(ins.image_id, "")

\* C18 witness: the attribute lookup has raised for two instances of one
\* run and one warning was printed
C18_Witness ==
    /\ script = "ecs"
    /\ Cardinality(AttrFailures) = 2
    /\ WarnCount = 1
    /\ printed_attr_error

\* the page requests of the top-level listings
PageEvents ==
    {"page:DescribeInstances", "page:ListBuckets", "page:ims:ListUsers",
     "page:ram:ListUsers"}

\* event e is a per-resource secondary lookup
IsLookup(e) == e \notin PageEvents \cup {"sleep", "warn"}

\* a sleep lies between events a and b of the run
SleepBetween(a, b) == \E m \in (a + 1)..(b - 1) : trace[m] = "sleep"

\* C19: rate limiting by fixed sleeps.  Between any two page requests of
\* one listing the run sleeps, and after every secondary lookup, whether
\* it returned or raised, the run sleeps before it issues its next request.
C19_SleepsBetween ==
    \A a, b \in DOMAIN trace :
        a < b =>
            /\ trace[a] \in PageEvents /\ trace[b] = trace[a] => SleepBetween(a, b)
            /\ IsLookup(trace[a]) /\ (IsLookup(trace[b]) \/ trace[b] \in PageEvents)
                   => SleepBetween(a, b)

\* the events of the j-th pass of the RAM user loop
UserPass(j) ==
    LET starts == {n \in DOMAIN trace : trace[n] = "lookup:ListPoliciesForUser"}
        nth(x) == CHOOSE n \in starts : Cardinality({m \in starts : m <= n}) = x
        last == IF Cardinality(starts) > j THEN nth(j + 1) - 1 ELSE Len(trace)
    IN  SubSeq(trace, nth(j), last)

\* the last-used lookups of the j-th pass, in the order they were issued
LastUsedLookups(j) ==
    SelectSeq(UserPass(j),
              LAMBDA e : e \in {"lookup:GetAccessKeyLastUsed:" \o ToString(x) : x \in 1..3})

\* C20: access-key last-used.  For a user with keys k1..kn the last-used
\* lookups are issued in listing order up to and including the first key
\* whose lookup returns a date (a lookup that raises is passed over), no
\* later key is asked for, and the record's "AccessKey Pair Last Used" is
\* that key's parsed date, or "Never" when no key yields one.
C20_LastUsed ==
    script = "ram" =>
        \A j \in DOMAIN rows_csv :
            LET i == faults[j].res
                k == kinds[i]
                has_keys == i \in ims_map /\ Truthy(ImsUser(i, k).UserPrincipalName)
                aks == IF has_keys THEN AccessKeysOf(k) ELSE <<>>
                yields == {x \in DOMAIN aks :
                              /\ ("GetAccessKeyLastUsed:" \o ToString(x)) \notin faults[j].raised
                              /\ aks[x].LastUsedDate # NoTime}
                first == IF yields = {} THEN Len(aks)
                         ELSE CHOOSE x \in yields : \A y \in yields : x <= y
            IN  /\ LastUsedLookups(j) =
                       [x \in 1..first |-> "lookup:GetAccessKeyLastUsed:" \o ToString(x)]
                /\ rows_csv[j][11] = IF yields = {} THEN "Never"
                                     ELSE parse_timestamp(aks[first].LastUsedDate)

\* C20 witness: the lookup for the first key raised, the second key gave
\* the date of the record, and the third key was not asked for
C20_Witness ==
    /\ script = "ram"
    /\ \E j \in DOMAIN rows_csv :
          /\ "GetAccessKeyLastUsed:1" \in faults[j].raised
          /\ LastUsedLookups(j) = <<"lookup:GetAccessKeyLastUsed:1",
                                    "lookup:GetAccessKeyLastUsed:2">>
          /\ rows_csv[j][11] = parse_timestamp(DayTime(9))
          /\ rows_csv[j][11] # "Never"

\* what path resolves to in a map of shape d: "absent" when it does not
\* resolve, "map" when it ends at a nested map
Resolved(d, path) ==
    IF path = <<"OSName">> THEN d.top
    ELSE IF path = <<"InstanceAttribute">> THEN d.mid
    ELSE IF path = <<"InstanceAttribute", "OSName">> /\ d.mid = "map" THEN d.deep
    ELSE "absent"

\* C21: field fallback priority.  _pick_from_map returns the string of the
\* value at the first path of the list that resolves through the nested
\* maps to a value other than None and "", passing over the paths that do
\* not resolve or resolve to None or "", and returns "" when no path does.
C21_FirstQualifyingPath ==
    call.fn = "_pick_from_map" /\ call.called =>
        LET good == {n \in DOMAIN call.keys :
                        Resolved(call.d, call.keys[n]) \notin {"absent", NONE, ""}}
        IN  IF good = {} THEN call.out = ""
            ELSE LET first == CHOOSE n \in good : \A l \in good : n <= l
                     v == Resolved(call.d, call.keys[first])
                 IN  call.out = IF v = "map" THEN "{...}" ELSE v

\* C21 witness: the first path does not resolve, the second resolves to
\* "", and the value of the third, inside the nested map, is returned
C21_Witness ==
    /\ call.fn = "_pick_from_map" /\ call.called
    /\ call.keys = <<<<"OSNameEn">>, <<"OSName">>, <<"InstanceAttribute", "OSName">>>>
    /\ call.d.top = ""
    /\ call.d.mid = "map"
    /\ call.out = "Alma 9"

\* the columns of the opened report that carry a select
SelectCols == IF ui.report = "oss" THEN OssSelectCols ELSE FilterCols

\* the rows that show when option o of column i is picked on the page as
\* loaded, every other control at rest
ShownFor(i, o, chars) ==
    LET loaded == [open |-> TRUE, report |-> ui.report, q |-> <<>>,
                   colq |-> [j \in FilterCols |-> <<>>],
                   sels |-> [j \in FilterCols |-> AllOption(ui.report)],
                   selChars |-> [j \in FilterCols |-> <<>>],
                   visible |-> [r \in FilterRows |-> TRUE],
                   changed |-> FALSE]
        u == RunFilter([loaded EXCEPT !.sels[i] = o, !.selChars[i] = chars])
    IN  {r \in FilterRows : u.visible[r]}

\* the rows with an empty filter value in column i
BlankRows(i) == {r \in FilterRows : FilterValue(TableOf(ui.report)[r][i]) = ""}

\* the select of column i offers "show all"
OffersAll(i) == ShownFor(i, AllOption(ui.report), <<>>) = FilterRows

\* the select of column i offers every distinct non-empty value of the column
OffersValues(i) ==
    \A r \in FilterRows \ BlankRows(i) :
        FilterValue(TableOf(ui.report)[r][i]) \in OptionsOf(ui.report, i)

\* the select of column i offers "show only blank" when the column has an
\* empty cell
OffersBlank(i) ==
    BlankRows(i) # {} =>
        \E o \in OptionsOf(ui.report, i) : ShownFor(i, o, <<>>) = BlankRows(i)

\* a data value picked in column i leaves only rows that hold it
DataValueFilters(i) ==
    ui.selChars[i] # <<>> =>
        \A r \in FilterRows :
            ui.visible[r] => FilterValue(TableOf(ui.report)[r][i]) = Concat(ui.selChars[i])

\* C22: filter options.  On the loaded page every column's select offers
\* "show all", one option per distinct non-empty value of the column, and
\* "show only blank" when the column has an empty cell; and an option that
\* stands for a data value never acts as "show all" or "show only blank".
C22_FilterOptions ==
    ui.open =>
        \A i \in SelectCols :
            OffersAll(i) /\ OffersValues(i) /\ OffersBlank(i) /\ DataValueFilters(i)

\* how often event e occurs among the events of the helper call
CallEvents(e) == Cardinality({n \in DOMAIN call.events : call.events[n] = e})

\* the first of vals that is neither None nor empty, or ""
RECURSIVE FirstPresent(_)
FirstPresent(vals) ==
    IF vals = <<>> THEN ""
    ELSE IF Head(vals) \notin {NONE, ""} THEN Head(vals)
    ELSE FirstPresent(Tail(vals))

\* C23: the attribute lookup is a fallback only.  A call of
\* get_os_image_best_effort issues DescribeInstanceAttribute at most once,
\* and exactly when the instance id is non-empty and the listing left the
\* OS name or the image id empty; a value the listing holds is returned as
\* it is; and the attribute sleep is taken exactly when the request was.
C23_AttrFallback ==
    call.fn = "get_os_image_best_effort" /\ call.called =>
        LET os == FirstPresent(<<call.ins.os_name_en, call.ins.os_name, call.ins.osname>>)
            img == FirstPresent(<<call.ins.image_id>>)
            iid == FirstPresent(<<call.ins.instance_id>>)
            asked == CallEvents("lookup:DescribeInstanceAttribute")
        IN  /\ asked <= 1
            /\ asked = 1 <=> iid # "" /\ (os = "" \/ img = "")
            /\ os # "" => call.os_name = os
            /\ img # "" => call.image_id = img
            /\ CallEvents("sleep") = asked

\* C23 witness: the listing held the OS name and no image id, the lookup
\* answered with both, and the result keeps the listing's OS name next to
\* the looked-up image id
C23_Witness ==
    /\ call.fn = "get_os_image_best_effort" /\ call.called
    /\ call.ins.osname = "Ubuntu 22.04" /\ call.ins.os_name_en = NONE
    /\ call.ins.image_id = NONE
    /\ call.body.os_name = "CentOS 7"
    /\ ~call.raises
    /\ call.os_name = "Ubuntu 22.04"
    /\ call.image_id = "img-typed"
    /\ call.events = <<"lookup:DescribeInstanceAttribute", "sleep">>

\* the sizes of the disks of the helper call at the positions in S, added up
RECURSIVE SizeOver(_)
SizeOver(S) ==
    IF S = {} THEN 0
    ELSE LET j == CHOOSE x \in S : TRUE
         IN  call.disks[j].size + SizeOver(S \ {j})

\* the positions of the disks whose type is one of types, however spelled
OfType(types) == {j \in DOMAIN call.disks : call.disks[j].type \in types}

\* the ids of the disks from position j on, the empty ones left out
RECURSIVE IdsFrom(_)
IdsFrom(j) ==
    IF j > Len(call.disks) THEN <<>>
    ELSE IF call.disks[j].disk_id \in {NONE, ""} THEN IdsFrom(j + 1)
    ELSE <<call.disks[j].disk_id>> \o IdsFrom(j + 1)

\* C24: disk summary consistency.  disk_summary returns total = the sum of
\* all sizes, system and data = the sums over the disks of type "system"
\* and "data" in any letter case, so that total >= system + data, with
\* equality exactly when every disk of non-zero size is of one of the two
\* types; its id list keeps the listing's order and leaves out empty ids.
\* The updated script counts every non-system disk as data, so that its
\* total is its system sum plus its data sum.
C24_DiskSums ==
    call.fn \in {"disk_summary", "uecs_disks"} /\ call.called =>
        LET sys == OfType({"system", "System"})
            dat == OfType({"data", "Data"})
        IN  /\ call.total = SizeOver(DOMAIN call.disks)
            /\ call.system = SizeOver(sys)
            /\ call.fn = "disk_summary" =>
                  /\ call.data = SizeOver(dat)
                  /\ call.total >= call.system + call.data
                  /\ call.total = call.system + call.data
                        <=> \A j \in DOMAIN call.disks :
                                call.disks[j].size # 0 => j \in sys \cup dat
                  /\ call.disk_ids = IdsFrom(1)
            /\ call.fn = "uecs_disks" =>
                  /\ call.data = SizeOver(DOMAIN call.disks \ sys)
                  /\ call.total = call.system + call.data

\* C24 witness: disk_summary on a system disk, a "Data" disk and a disk of
\* another type without id: the total exceeds system + data
C24_Witness ==
    /\ call.fn = "disk_summary" /\ call.called
    /\ Len(call.disks) = 3
    /\ call.disks[1].type = "system" /\ call.disks[2].type = "Data"
    /\ call.disks[3].type = "cloud" /\ call.disks[3].disk_id = NONE
    /\ call.system = 20 /\ call.data = 20 /\ call.total = 60
    /\ call.disk_ids = <<"d-1", "d-2">>

\* the positions of the listing that the page requests made so far covered
SeenSnaps ==
    LET size == IF pg.fn = "snaps" THEN SUB_PAGE_SIZE ELSE PageSize
    IN  {j \in 1..pg.n : \E p \in Range(pg.st.reqs) : (p - 1) * size < j /\ j <= p * size}

\* C25: snapshot summary.  When the summary is made, its count is the
\* number of snapshots on the pages it requested and its latest time the
\* greatest creation time among them, none when none of them has one; for
\* snapshot_summary_for_instance, which requests every page, that is the
\* number and the greatest creation time of all the instance's snapshots,
\* in whatever order the provider lists them.
C25_SnapshotSummary ==
    pg.fn \in {"snaps", "uecs_snaps"} /\ pg.st.done =>
        LET items == SnapItems(pg.n, pg.rot, pg.timed)
            times == {items[j].creation_time : j \in SeenSnaps} \ {0}
        IN  /\ pg.st.count = Cardinality(SeenSnaps)
            /\ times = {} => pg.st.latest = 0
            /\ times # {} => pg.st.latest \in times /\ \A t \in times : t <= pg.st.latest
            /\ pg.fn = "snaps" =>
                  /\ pg.st.count = pg.n
                  /\ pg.st.latest = IF pg.n = 0 \/ ~pg.timed THEN 0 ELSE 9

\* C25 witness: 120 snapshots over three pages, the latest listed on the
\* second page after later pages' and earlier pages' older ones
C25_Witness ==
    /\ pg.fn = "snaps" /\ pg.st.done
    /\ pg.n = 120 /\ pg.rot = 60 /\ pg.timed
    /\ pg.st.reqs = <<1, 2, 3>>
    /\ pg.st.count = 120
    /\ pg.st.latest = 9

\* C26: access-key status of a RAM user record.  It is "None", with
\* generated date "N/A" and last used "Never", when the user has no IMS
\* entry with a UserPrincipalName or has no access keys; otherwise it is
\* "Active" exactly when one of the keys is active, else "Inactive", and the
\* generated date is the creation date of a key created latest.
C26_AccessKeyStatus ==
    call.fn = "access_keys" /\ call.called =>
        LET keys == call.keys
        IN  IF call.ims # "upn" \/ keys = <<>>
            THEN /\ call.ak_status = "None"
                 /\ call.ak_gen_date = "N/A"
                 /\ call.ak_last_used = "Never"
            ELSE /\ call.ak_status \in {"Active", "Inactive"}
                 /\ call.ak_status = "Active" <=> \E j \in DOMAIN keys : keys[j].active
                 /\ \E j \in DOMAIN keys :
                       /\ \A l \in DOMAIN keys : keys[l].day <= keys[j].day
                       /\ call.ak_gen_date = parse_timestamp(DayTime(keys[j].day))

\* C26 witness: three inactive keys, the second created last
C26_Witness ==
    /\ call.fn = "access_keys" /\ call.called
    /\ call.ims = "upn"
    /\ Len(call.keys) = 3
    /\ \A j \in 1..3 : ~call.keys[j].active
    /\ call.keys[1].day = 1 /\ call.keys[2].day = 3 /\ call.keys[3].day = 2
    /\ call.ak_status = "Inactive"
    /\ call.ak_gen_date = parse_timestamp(DayTime(3))

\* the run is inside one of its listing loops: the IMS ListUsers loop, or
\* the loop over the pages of instances or RAM users and their for-body
LoopPcs == {"ims", "list", "page"}

\* the page requests that list n resources: max(1, ceil(n / PageSize))
LoopPages(n) == IF n = 0 THEN 1 ELSE (n + PageSize - 1) \div PageSize

\* a step taken inside a listing loop asks for no page past the last, and
\* leaves the loop only for the rendering of the report or by a page
\* request that raised
LoopStep ==
    script \in {"ecs", "uecs", "ram"} /\ pc \in LoopPcs =>
        /\ page' <= LoopPages(nres)
        /\ pc' \notin LoopPcs => (pc' = "render" \/ fatal')

\* C27: termination of the listing loops.  Against a provider that reports
\* its total count, or says on the last page of users that no more follow,
\* the page-number loop of the ECS scripts and the marker loops of the RAM
\* script stay within the pages the listing has, and after a loop has
\* ended the run goes on to the rendering of the report.
C27_LoopsEndInRendering == [][LoopStep]_vars

\* m * 1024^e < 1024^j, for 1 <= m < 1024^3
Below(m, e, j) ==
    IF j - e >= 3 THEN TRUE
    ELSE IF j - e < 0 THEN FALSE
    ELSE m < Pow1024(j - e)

\* h is m * 1024^(e - k) to two decimals: within half a hundredth of it
TwoDecimals(h, m, e, k) ==
    IF e >= k THEN h = 100 * m * Pow1024(e - k)
    ELSE LET d == Pow1024(k - e)
             diff == h * d - 100 * m
         IN  2 * (IF diff < 0 THEN -diff ELSE diff) <= d

\* C10: byte formatting.  format_bytes(0) is "0 B", format_bytes(1536) is
\* "1.50 KB", format_bytes(1024**3) is "1.00 GB"; for b > 0 the result is
\* b / 1024^k to two decimals with unit number k of B, KB, MB, GB, TB, PB,
\* k being the least step with b / 1024^k < 1024 and 5 (PB) if there is
\* none below; b <= 0 and non-numeric input give "0 B".
C10_FormatBytes ==
    fb.called =>
        LET b == fb.b
            r == fb.out
            AllUnits == <<"B", "KB", "MB", "GB", "TB", "PB">>
        IN  /\ b = Bytes(0) => BytesText(r) = "0 B"
            /\ b = Bytes(1536) => BytesText(r) = "1.50 KB"
            /\ b = [kind |-> "num", neg |-> FALSE, m |-> 1, e |-> 3] =>
                   BytesText(r) = "1.00 GB"
            /\ IF b.kind # "num" \/ b.neg \/ b.m = 0
               THEN BytesText(r) = "0 B"
               ELSE /\ ~r.zero
                    /\ \E k \in 0..5 :
                          /\ r.unit = AllUnits[k + 1]
                          /\ k = 5 \/ Below(b.m, b.e, k + 1)
                          /\ k = 0 \/ ~Below(b.m, b.e, k)
                          /\ TwoDecimals(r.h, b.m, b.e, k)

\* C10 witness: format_bytes(1536) has returned "1.50 KB"
C10_Witness ==
    /\ fb.called
    /\ fb.b = Bytes(1536)
    /\ BytesText(fb.out) = "1.50 KB"

=============================================================================
